---- MODULE Spec2Model ----
(***************************************************************************)
(* The optimistic-update / reconciliation state machine of src/App.tsx:    *)
(* the customer and task stores, the two pending-insertion sets, the       *)
(* create handlers with their identifier swap, rollback and grace timer,   *)
(* the refresh merge of fetchAllData and the realtime change-feed          *)
(* handlers, together with the remote gateway they talk to.                *)
(*                                                                         *)
(* Every handler continuation (the code between two awaits, with the       *)
(* state updaters it enqueues) is one atomic step: the host is             *)
(* single-threaded and the updaters of one continuation are applied in     *)
(* order before the next continuation runs.                                *)
(***************************************************************************)
EXTENDS Integers, Sequences, FiniteSets, TLC

\* ------------------------------------------------------------------ bounds
MaxAdds == 1        \* create actions (handleAddCustomer + handleAddTask) issued
MaxFetches == 2     \* fetchAllData invocations
MaxOps == 1         \* update and delete actions issued
MaxWrites == 2      \* create, update and delete actions issued under SpecWrites
MaxGraceFetches == 1    \* fetchAllData invocations under SpecRelease
MaxSheetOps == 2    \* requests issued from the customer sheet under SpecColumns

\* ------------------------------------------------------------- identifiers
\* A JavaScript value used as an identifier is either a number or a string.
\* The two forms never compare equal under ===.
Num(n) == [num |-> n]
Str(s) == [str |-> s]
IsStr(x) == DOMAIN x = {"str"}

DigitChar == <<"0", "1", "2", "3", "4", "5", "6", "7", "8", "9">>

RECURSIVE Digits(_)
Digits(n) == IF n < 10 THEN DigitChar[n + 1]
             ELSE Digits(n \div 10) \o DigitChar[(n % 10) + 1]

\* String(x): a number becomes its decimal string, a string is unchanged.
String(x) == IF IsStr(x) THEN x ELSE Str(Digits(x.num))

\* `c_${Date.now()}_${random}` and `t_${Date.now()}_${random}`: the clock
\* reading stands for the whole suffix; two creates never read the same one.
CustomerLocalId(now) == Str("c_" \o Digits(now))
TaskLocalId(now) == Str("t_" \o Digits(now))

\* ----------------------------------------------------------------- helpers
Ids(s) == {s[i].id : i \in DOMAIN s}
Some(s, id) == \E i \in DOMAIN s : s[i].id = id
WithId(s, id) == SelectSeq(s, LAMBDA r : r.id = id)
WithoutId(s, id) == SelectSeq(s, LAMBDA r : r.id # id)
Remove(s, k) == [j \in 1..(Len(s) - 1) |-> IF j < k THEN s[j] ELSE s[j + 1]]

normalize(obj) == [obj EXCEPT !.id = String(obj.id)]
normalizeTask(obj) ==
    [obj EXCEPT !.id = String(obj.id), !.customerId = String(obj.customerId)]

\* { ...a, ...b }: the fields of b over those of a.
Spread(a, b) ==
    [k \in DOMAIN a \cup DOMAIN b |-> IF k \in DOMAIN b THEN b[k] ELSE a[k]]

\* `data || []` on a gateway reply: an errored read carries no data.
OrEmpty(reply) == IF reply.error THEN <<>> ELSE reply.data

\* ------------------------------------------------------------------- state
VARIABLES
    customers,        \* useState<Customer[]>
    tasks,            \* useState<Task[]>
    pendingAdds,      \* pendingAddsRef.current
    pendingTaskAdds,  \* pendingTaskAddsRef.current
    adds,             \* one entry per handleAddCustomer/handleAddTask call
    fetches,          \* fetchAllData invocations awaiting their reads
    nFetches,         \* fetchAllData invocations so far
    ops,              \* update and delete handlers awaiting the gateway
    nOps,             \* update and delete actions so far
    dbCustomers,      \* the remote customers table
    dbTasks,          \* the remote tasks table
    dbSeq,            \* the remote tables' identity sequences
    feed,             \* change-feed events published and not yet delivered
    alerts,           \* messages shown by alert()
    last,             \* the step taken last
    columns,          \* useState<Column[]>
    employees,        \* useState<Employee[]>
    templateTasks,    \* useState<TemplateTask[]>
    hiddenColumns,    \* useState<Record<CustomerStatus, string[]>>
    dbColumns,        \* the remote columns table
    dbSettings,       \* row 1 of the remote app_settings table
    dbEmployees,      \* the remote employees table
    dbTemplateTasks,  \* the remote template_tasks table
    activeTab,        \* CustomerSheet: useState<CustomerStatus | 'All'>
    draggingColumnId, \* CustomerSheet: useState<string | null>
    contextMenu,      \* CustomerSheet: useState<{ x, y, column } | null>
    confirmationModal, \* CustomerSheet: useState<{ title, content, onConfirm, onCancel, ... } | null>
    editingCell       \* CustomerSheet: useState<{ customerId, field, value } | null>

\* The state of the customer sheet, and the remote tables of the employees
\* and of the template tasks.
uiVars == <<activeTab, draggingColumnId, contextMenu, confirmationModal,
           editingCell>>
staffTables == <<dbEmployees, dbTemplateTasks>>

\* The stores without pending semantics, the remote tables behind them and
\* the state of the sheet.
sheetVars == <<columns, employees, templateTasks, hiddenColumns, dbColumns,
               dbSettings, dbEmployees, dbTemplateTasks, uiVars>>

vars == <<customers, tasks, pendingAdds, pendingTaskAdds, adds, fetches,
          nFetches, ops, nOps, dbCustomers, dbTasks, dbSeq, feed, alerts, last,
          sheetVars>>

\* The drafts the user submits: the k-th create carries the k-th name or
\* title, so that records of different creates differ in content as well.
DraftNames == <<"Yamada", "Sato", "Suzuki", "Tanaka">>
DraftTitles == <<"survey", "contract", "foundation", "handover">>
\* customerData.data: the form supplies a value for every column, so the
\* loop of lines 254-256 has nothing to fill in.
DraftData == [memo |-> "", rank |-> ""]

SeedCustomers ==
    <<[id |-> Num(1), name |-> "Seed", data |-> [memo |-> "", rank |-> "A"],
       created_at |-> "tz"]>>
SeedTasks ==
    <<[id |-> Num(1), customerId |-> Num(1), title |-> "seed", created_at |-> "tz"],
      [id |-> Num(2), customerId |-> Num(1), title |-> "visit", created_at |-> "tz"]>>

\* Lines 132-136: the columns, settings, employees and template tasks the
\* tables were seeded with.  {} is the record with no fields.
NoHidden == <<>>
SeedColumns ==
    <<[id |-> "memo", title |-> "Memo", type |-> "text", options |-> <<>>,
       order |-> 0],
      [id |-> "rank", title |-> "Rank", type |-> "select", options |-> <<"A", "B">>,
       order |-> 1]>>
SeedSettings == [id |-> 1, hiddenColumns |-> NoHidden]
SeedEmployees == <<[id |-> Num(1), name |-> "Ito"]>>
SeedTemplateTasks == <<[id |-> Num(1), title |-> "survey"]>>

\* null
NoData == [null |-> TRUE]

\* No column is dragged: null, which the test !draggingColumnId (CustomerSheet.tsx,
\* line 515) does not tell from the empty string; no column has the empty
\* identifier.
NoDrag == ""

Init ==
    /\ customers = <<>>
    /\ tasks = <<>>
    /\ pendingAdds = {}
    /\ pendingTaskAdds = {}
    /\ adds = <<>>
    /\ fetches = <<>>
    /\ nFetches = 0
    /\ ops = <<>>
    /\ nOps = 0
    /\ dbCustomers = SeedCustomers
    /\ dbTasks = SeedTasks
    /\ dbSeq = [customers |-> 2, tasks |-> 3]
    /\ feed = <<>>
    /\ alerts = <<>>
    /\ last = [op |-> "init"]
    /\ columns = <<>>
    /\ employees = <<>>
    /\ templateTasks = <<>>
    /\ hiddenColumns = NoHidden
    /\ dbColumns = SeedColumns
    /\ dbSettings = SeedSettings
    /\ dbEmployees = SeedEmployees
    /\ dbTemplateTasks = SeedTemplateTasks
    /\ activeTab = "All"
    /\ draggingColumnId = NoDrag
    /\ contextMenu = <<>>
    /\ confirmationModal = NoData
    /\ editingCell = NoData


\* ------------------------------------------------------- remote gateway
InsertError == "network error"
\* The message of the error the gateway replies with when it fails the
\* insert of the k-th create.
ErrorMessages == <<InsertError, "duplicate key", "permission denied", "timeout">>

\* supabase.from(table).insert([payload]).select().single(): the table
\* assigns the identifier and stores its own form of the timestamp.
InsertedCustomer(payload, seq) ==
    [id |-> Num(seq), name |-> payload.name, data |-> payload.data,
     created_at |-> "tz"]
InsertedTask(payload, seq) ==
    [id |-> Num(seq), customerId |-> payload.customerId,
     title |-> payload.title, created_at |-> "tz"]

Event(table, type, new, old) ==
    [table |-> table, eventType |-> type, new |-> new, old |-> old]

\* The gateway serves the insert of create i: it either stores the row,
\* publishes the INSERT event and replies with the row, or replies with an
\* error and stores nothing.
GatewayInsert(i) ==
    /\ adds[i].pc = "insert"
    /\ \E ok \in BOOLEAN :
         IF ok
         THEN IF adds[i].kind = "customer"
              THEN LET row == InsertedCustomer(adds[i].payload, dbSeq.customers)
                   IN /\ dbCustomers' = Append(dbCustomers, row)
                      /\ dbSeq' = [dbSeq EXCEPT !.customers = @ + 1]
                      /\ feed' = Append(feed, Event("customers", "INSERT", row, NoData))
                      /\ adds' = [adds EXCEPT ![i].pc = "ok", ![i].data = row]
                      /\ UNCHANGED dbTasks
              ELSE LET row == InsertedTask(adds[i].payload, dbSeq.tasks)
                   IN /\ dbTasks' = Append(dbTasks, row)
                      /\ dbSeq' = [dbSeq EXCEPT !.tasks = @ + 1]
                      /\ feed' = Append(feed, Event("tasks", "INSERT", row, NoData))
                      /\ adds' = [adds EXCEPT ![i].pc = "ok", ![i].data = row]
                      /\ UNCHANGED dbCustomers
         ELSE /\ adds' = [adds EXCEPT ![i].pc = "err",
                                      ![i].error = [message |-> ErrorMessages[i]]]
              /\ UNCHANGED <<dbCustomers, dbTasks, dbSeq, feed>>
    /\ last' = [op |-> "GatewayInsert"]
    /\ UNCHANGED <<customers, tasks, pendingAdds, pendingTaskAdds, fetches,
                   nFetches, ops, nOps, alerts>>
    /\ UNCHANGED sheetVars

\* ------------------------------------------------------ handleAddCustomer
\* Lines 248-266: local identifier, pending mark, optimistic append; then
\* the insert request leaves with the identifier stripped (271-277).
NewCustomer(customerData, newId) ==
    [id |-> newId, name |-> customerData.name, data |-> customerData.data,
     created_at |-> "iso"]
\* A faulty variant of CustomerPayload: the whole record is sent.
CustomerPayloadWithId(newCustomer) == newCustomer

CustomerPayload(newCustomer) ==
    [name |-> newCustomer.name, data |-> newCustomer.data,
     created_at |-> newCustomer.created_at]

handleAddCustomer(customerData) ==
    /\ Len(adds) < MaxAdds
    /\ LET newId == CustomerLocalId(Len(adds) + 1)
           newCustomer == NewCustomer(customerData, newId)
       IN /\ pendingAdds' = pendingAdds \cup {newId}
          /\ customers' = Append(customers, newCustomer)
          /\ adds' = Append(adds, [kind |-> "customer", newId |-> newId,
                                   pc |-> "insert",
                                   payload |-> CustomerPayload(newCustomer),
                                   data |-> NoData, error |-> NoData])
    /\ last' = [op |-> "handleAddCustomer"]
    /\ UNCHANGED <<tasks, pendingTaskAdds, fetches, nFetches, ops, nOps, dbCustomers,
                   dbTasks, dbSeq, feed, alerts>>
    /\ UNCHANGED sheetVars

\* A faulty variant of SwapCustomer: the returned row is added when no
\* record is stored under the local identifier.
SwapCustomerOrAppend(prev, newId, data, returnedId) ==
    IF Some(prev, newId)
    THEN [k \in DOMAIN prev |->
            IF prev[k].id = newId THEN [data EXCEPT !.id = returnedId] ELSE prev[k]]
    ELSE Append(prev, [data EXCEPT !.id = returnedId])

\* Line 288: prev.map(c => c.id === newId ? { ...data, id: returnedId } : c)
SwapCustomer(prev, newId, data, returnedId) ==
    [k \in DOMAIN prev |->
        IF prev[k].id = newId THEN [data EXCEPT !.id = returnedId] ELSE prev[k]]

\* Lines 287 and 289: the returned identifier becomes pending, the local one
\* stops being pending.
SwapPendingCustomer(pending, newId, returnedId) ==
    (pending \cup {returnedId}) \ {newId}

\* A faulty variant of RollbackCustomer: === in place of !==.
RollbackCustomerKeeps(prev, newId) == WithId(prev, newId)

\* Line 303: prev.filter(c => c.id !== newId)
RollbackCustomer(prev, newId) == WithoutId(prev, newId)

\* Lines 281-298: the insert succeeded.
AddCustomerSuccess(i) ==
    /\ adds[i].kind = "customer"
    /\ adds[i].pc = "ok"
    /\ LET newId == adds[i].newId
           returnedId == String(adds[i].data.id)
       IN IF returnedId # newId
          THEN /\ pendingAdds' = SwapPendingCustomer(pendingAdds, newId, returnedId)
               /\ customers' = SwapCustomer(customers, newId, adds[i].data, returnedId)
          ELSE UNCHANGED <<pendingAdds, customers>>
    /\ adds' = [adds EXCEPT ![i].pc = "timer"]
    /\ last' = [op |-> "AddCustomerSuccess"]
    /\ UNCHANGED <<tasks, pendingTaskAdds, fetches, nFetches, ops, nOps, dbCustomers,
                   dbTasks, dbSeq, feed, alerts>>
    /\ UNCHANGED sheetVars

\* Line 301: alert(`<registration failed>\nError: ${e.message}`)
CustomerAlert(e) == "registration failed. error: " \o e.message

\* Lines 299-305: the insert failed.
AddCustomerFail(i) ==
    /\ adds[i].kind = "customer"
    /\ adds[i].pc = "err"
    /\ alerts' = Append(alerts, CustomerAlert(adds[i].error))
    /\ customers' = RollbackCustomer(customers, adds[i].newId)
    /\ pendingAdds' = pendingAdds \ {adds[i].newId}
    /\ adds' = [adds EXCEPT ![i].pc = "failed"]
    /\ last' = [op |-> "AddCustomerFail"]
    /\ UNCHANGED <<tasks, pendingTaskAdds, fetches, nFetches, ops, nOps, dbCustomers,
                   dbTasks, dbSeq, feed>>
    /\ UNCHANGED sheetVars

\* A faulty variant of CustomerTimer: the returned identifier is left to
\* the refresh that confirms it.
CustomerTimerLocalOnly(i) ==
    /\ adds[i].kind = "customer"
    /\ adds[i].pc = "timer"
    /\ pendingAdds' = pendingAdds \ {adds[i].newId}
    /\ adds' = [adds EXCEPT ![i].pc = "released"]
    /\ last' = [op |-> "CustomerTimer"]
    /\ UNCHANGED <<customers, tasks, pendingTaskAdds, fetches, nFetches, ops, nOps,
                   dbCustomers, dbTasks, dbSeq, feed, alerts>>
    /\ UNCHANGED sheetVars

\* Lines 294-297: the 5000 ms timer set by the success path fires.
CustomerTimer(i) ==
    /\ adds[i].kind = "customer"
    /\ adds[i].pc = "timer"
    /\ LET newId == adds[i].newId
           returnedId == String(adds[i].data.id)
       IN pendingAdds' = (pendingAdds \ {newId}) \
                            (IF returnedId # newId THEN {returnedId} ELSE {})
    /\ adds' = [adds EXCEPT ![i].pc = "released"]
    /\ last' = [op |-> "CustomerTimer"]
    /\ UNCHANGED <<customers, tasks, pendingTaskAdds, fetches, nFetches, ops, nOps,
                   dbCustomers, dbTasks, dbSeq, feed, alerts>>
    /\ UNCHANGED sheetVars

\* ----------------------------------------------------------- handleAddTask
NewTask(task, newId) ==
    [id |-> newId, customerId |-> task.customerId, title |-> task.title,
     created_at |-> "iso"]
TaskPayload(newTask) ==
    [customerId |-> newTask.customerId, title |-> newTask.title,
     created_at |-> newTask.created_at]

\* Lines 384-400.
handleAddTask(task) ==
    /\ Len(adds) < MaxAdds
    /\ LET newId == TaskLocalId(Len(adds) + 1)
           newTask == NewTask(task, newId)
       IN /\ pendingTaskAdds' = pendingTaskAdds \cup {newId}
          /\ tasks' = Append(tasks, newTask)
          /\ adds' = Append(adds, [kind |-> "task", newId |-> newId,
                                   pc |-> "insert",
                                   payload |-> TaskPayload(newTask),
                                   data |-> NoData, error |-> NoData])
    /\ last' = [op |-> "handleAddTask"]
    /\ UNCHANGED <<customers, pendingAdds, fetches, nFetches, ops, nOps, dbCustomers,
                   dbTasks, dbSeq, feed, alerts>>
    /\ UNCHANGED sheetVars

\* Line 408: { ...t, ...data, id: returnedId, customerId: String(data.customerId) }
\* The returned row carries every field of t, so ...data overrides them all.
SwapTask(prev, newId, data, returnedId) ==
    [k \in DOMAIN prev |->
        IF prev[k].id = newId
        THEN [data EXCEPT !.id = returnedId,
                          !.customerId = String(data.customerId)]
        ELSE prev[k]]

\* Lines 407 and 409.
SwapPendingTask(pending, newId, returnedId) ==
    (pending \cup {returnedId}) \ {newId}

\* Line 421: prev.filter(t => t.id !== newId)
RollbackTask(prev, newId) == WithoutId(prev, newId)

\* Lines 404-416.
AddTaskSuccess(i) ==
    /\ adds[i].kind = "task"
    /\ adds[i].pc = "ok"
    /\ LET newId == adds[i].newId
           returnedId == String(adds[i].data.id)
       IN IF returnedId # newId
          THEN /\ pendingTaskAdds' = SwapPendingTask(pendingTaskAdds, newId, returnedId)
               /\ tasks' = SwapTask(tasks, newId, adds[i].data, returnedId)
          ELSE UNCHANGED <<pendingTaskAdds, tasks>>
    /\ adds' = [adds EXCEPT ![i].pc = "timer"]
    /\ last' = [op |-> "AddTaskSuccess"]
    /\ UNCHANGED <<customers, pendingAdds, fetches, nFetches, ops, nOps, dbCustomers,
                   dbTasks, dbSeq, feed, alerts>>
    /\ UNCHANGED sheetVars

\* A faulty variant of TaskAlert: the error's message is left out.
TaskAlertNoMessage(e) == "task registration failed"

\* Line 419: alert('<task registration failed>: ' + error.message)
TaskAlert(e) == "task registration failed: " \o e.message

\* Lines 417-422.
AddTaskFail(i) ==
    /\ adds[i].kind = "task"
    /\ adds[i].pc = "err"
    /\ alerts' = Append(alerts, TaskAlert(adds[i].error))
    /\ pendingTaskAdds' = pendingTaskAdds \ {adds[i].newId}
    /\ tasks' = RollbackTask(tasks, adds[i].newId)
    /\ adds' = [adds EXCEPT ![i].pc = "failed"]
    /\ last' = [op |-> "AddTaskFail"]
    /\ UNCHANGED <<customers, pendingAdds, fetches, nFetches, ops, nOps, dbCustomers,
                   dbTasks, dbSeq, feed>>
    /\ UNCHANGED sheetVars

\* A faulty variant of TaskTimer: the timer acts as a request timeout and
\* takes the created task out of the store.
TaskTimerAsTimeout(i) ==
    /\ adds[i].kind = "task"
    /\ adds[i].pc = "timer"
    /\ LET newId == adds[i].newId
           returnedId == String(adds[i].data.id)
       IN /\ pendingTaskAdds' = (pendingTaskAdds \ {newId}) \
                                   (IF returnedId # newId THEN {returnedId} ELSE {})
          /\ tasks' = WithoutId(tasks, returnedId)
    /\ adds' = [adds EXCEPT ![i].pc = "released"]
    /\ last' = [op |-> "TaskTimer"]
    /\ UNCHANGED <<customers, pendingAdds, fetches, nFetches, ops, nOps,
                   dbCustomers, dbTasks, dbSeq, feed, alerts>>
    /\ UNCHANGED sheetVars

\* Lines 412-415.
TaskTimer(i) ==
    /\ adds[i].kind = "task"
    /\ adds[i].pc = "timer"
    /\ LET newId == adds[i].newId
           returnedId == String(adds[i].data.id)
       IN pendingTaskAdds' = (pendingTaskAdds \ {newId}) \
                                (IF returnedId # newId THEN {returnedId} ELSE {})
    /\ adds' = [adds EXCEPT ![i].pc = "released"]
    /\ last' = [op |-> "TaskTimer"]
    /\ UNCHANGED <<customers, tasks, pendingAdds, fetches, nFetches, ops, nOps,
                   dbCustomers, dbTasks, dbSeq, feed, alerts>>
    /\ UNCHANGED sheetVars

\* ------------------------------------------------------------ fetchAllData
\* Line 79 / line 99: the fetched rows with their identifiers normalized.
FetchedCustomers(reply) ==
    [k \in DOMAIN OrEmpty(reply) |-> normalize(OrEmpty(reply)[k])]
FetchedTasks(reply) ==
    [k \in DOMAIN OrEmpty(reply) |-> normalizeTask(OrEmpty(reply)[k])]

\* A faulty variant of ClearConfirmed: every pending identifier is dropped.
ClearConfirmedAll(pending, fetched) == {}

\* Lines 82-86 / 101-105: pending identifiers that arrived in the fetch are
\* no longer pending.
ClearConfirmed(pending, fetched) == pending \ Ids(fetched)

\* A faulty variant of PendingItems: the second test of the filter inverted.
PendingItemsInverted(prev, pending, fetched) ==
    SelectSeq(prev, LAMBDA c : c.id \in pending /\ Some(fetched, c.id))

\* Lines 89-92 / 107-110: the records of prev that are still pending and
\* are not in the fetched list.
PendingItems(prev, pending, fetched) ==
    SelectSeq(prev, LAMBDA c : c.id \in pending /\ ~Some(fetched, c.id))

\* Lines 78-94: the updater given to setCustomers.
MergeCustomers(prev, pending, reply) ==
    LET fetched == FetchedCustomers(reply)
    IN fetched \o PendingItems(prev, ClearConfirmed(pending, fetched), fetched)

\* A faulty variant of MergeTasks: the fetched records are added to the
\* store without regard to identifiers.
MergeTasksUnkeyed(prev, pending, reply) == prev \o FetchedTasks(reply)

\* Lines 98-112: the updater given to setTasks.
MergeTasks(prev, pending, reply) ==
    LET fetched == FetchedTasks(reply)
    IN fetched \o PendingItems(prev, ClearConfirmed(pending, fetched), fetched)

\* select('*') on a table: the rows, or an error and no data.
SelectReply(table, failed) ==
    IF failed THEN [error |-> TRUE, data |-> <<>>]
    ELSE [error |-> FALSE, data |-> table]

\* select(...).eq('id', 1).single(): the row, or an error and no data.
SingleReply(row, failed) ==
    IF failed THEN [error |-> TRUE, data |-> NoData]
    ELSE [error |-> FALSE, data |-> row]

\* Lines 58-74: the replies to the reads of one refresh, of which those of
\* the tables in failed are errors.  (The company_info read and store are
\* left out.)
Replies(failed) ==
    [customersData |-> SelectReply(dbCustomers, "customers" \in failed),
     columnsData |-> SelectReply(dbColumns, "columns" \in failed),
     tasksData |-> SelectReply(dbTasks, "tasks" \in failed),
     employeesData |-> SelectReply(dbEmployees, "employees" \in failed),
     templateTasksData |->
         SelectReply(dbTemplateTasks, "template_tasks" \in failed),
     settingsData |-> SingleReply(dbSettings, "app_settings" \in failed)]

\* Line 96: columnsData || []
FetchedColumns(reply) == OrEmpty(reply)

\* A faulty variant of FetchedEmployees: the identifiers are left as read.
FetchedEmployeesAsRead(reply) == OrEmpty(reply)

\* Line 114: (employeesData || []).map(e => ({ ...e, id: String(e.id) }))
FetchedEmployees(reply) ==
    [k \in DOMAIN OrEmpty(reply) |-> normalize(OrEmpty(reply)[k])]

\* Line 115: (templateTasksData || []).map(t => ({ ...t, id: String(t.id) }))
FetchedTemplateTasks(reply) ==
    [k \in DOMAIN OrEmpty(reply) |-> normalize(OrEmpty(reply)[k])]

\* Line 116: settingsData?.hiddenColumns || {}
FetchedHiddenColumns(reply) ==
    IF reply.error THEN NoHidden ELSE reply.data.hiddenColumns

\* Lines 55-74: a focus, visibility or load event starts a refresh and the
\* gateway serves its reads from the tables as they are.  The call changes
\* nothing locally, so the moment the reads are served is taken as the
\* moment of the call; the continuation runs any time later.
\* failures holds the sets of tables whose reads may fail together.
fetchAllDataWhere(failures) ==
    /\ nFetches < MaxFetches
    /\ nFetches' = nFetches + 1
    /\ \E failed \in failures : fetches' = Append(fetches, Replies(failed))
    /\ last' = [op |-> "fetchAllData"]
    /\ UNCHANGED <<customers, tasks, pendingAdds, pendingTaskAdds, adds, ops,
                   nOps, dbCustomers, dbTasks, dbSeq, feed, alerts>>
    /\ UNCHANGED sheetVars

\* A refresh in which the reads of the customers and of the tasks may fail.
fetchAllData == fetchAllDataWhere(SUBSET {"customers", "tasks"})

\* A refresh in which no read fails, the read of one of the other tables
\* fails, or the reads of all of them fail.
OtherTables == {"columns", "employees", "template_tasks", "app_settings"}
fetchAllDataOthers ==
    fetchAllDataWhere({{}, OtherTables} \cup {{t} : t \in OtherTables})

\* Lines 76-121: the continuation of refresh f after Promise.all.
FetchComplete(f) ==
    /\ customers' = MergeCustomers(customers, pendingAdds, fetches[f].customersData)
    /\ pendingAdds' =
          ClearConfirmed(pendingAdds, FetchedCustomers(fetches[f].customersData))
    /\ tasks' = MergeTasks(tasks, pendingTaskAdds, fetches[f].tasksData)
    /\ pendingTaskAdds' =
          ClearConfirmed(pendingTaskAdds, FetchedTasks(fetches[f].tasksData))
    /\ columns' = FetchedColumns(fetches[f].columnsData)
    /\ employees' = FetchedEmployees(fetches[f].employeesData)
    /\ templateTasks' = FetchedTemplateTasks(fetches[f].templateTasksData)
    /\ hiddenColumns' = FetchedHiddenColumns(fetches[f].settingsData)
    /\ fetches' = Remove(fetches, f)
    /\ last' = [op |-> "FetchComplete", reply |-> fetches[f]]
    /\ UNCHANGED <<adds, nFetches, ops, nOps, dbCustomers, dbTasks, dbSeq, feed,
                   alerts, dbColumns, dbSettings>>
    /\ UNCHANGED <<uiVars, staffTables>>

\* -------------------------------------------------- realtime subscriptions
\* A faulty variant of handleCustomerChange: INSERT without the look-up.
handleCustomerChangeNoLookup(c, payload) ==
    CASE payload.eventType = "INSERT" -> Append(c, normalize(payload.new))
      [] payload.eventType = "UPDATE" ->
            [k \in DOMAIN c |->
                IF c[k].id = String(payload.new.id) THEN normalize(payload.new)
                ELSE c[k]]
      [] payload.eventType = "DELETE" ->
            WithoutId(c, String(payload.old.id))

\* Lines 173-184.
handleCustomerChange(c, payload) ==
    CASE payload.eventType = "INSERT" ->
            LET newId == String(payload.new.id)
            IN IF Some(c, newId) THEN c ELSE Append(c, normalize(payload.new))
      [] payload.eventType = "UPDATE" ->
            [k \in DOMAIN c |->
                IF c[k].id = String(payload.new.id) THEN normalize(payload.new)
                ELSE c[k]]
      [] payload.eventType = "DELETE" ->
            WithoutId(c, String(payload.old.id))

\* A faulty variant of handleTaskChange: UPDATE adds the record when no
\* record has its identifier.
handleTaskChangeUpsert(t, payload) ==
    CASE payload.eventType = "INSERT" -> Append(t, normalizeTask(payload.new))
      [] payload.eventType = "UPDATE" ->
            IF Some(t, String(payload.new.id))
            THEN [k \in DOMAIN t |->
                    IF t[k].id = String(payload.new.id)
                    THEN normalizeTask(payload.new) ELSE t[k]]
            ELSE Append(t, normalizeTask(payload.new))
      [] payload.eventType = "DELETE" ->
            WithoutId(t, String(payload.old.id))

\* A faulty variant of handleTaskChange: DELETE empties the store.
handleTaskChangeDeleteAll(t, payload) ==
    CASE payload.eventType = "INSERT" -> Append(t, normalizeTask(payload.new))
      [] payload.eventType = "UPDATE" ->
            [k \in DOMAIN t |->
                IF t[k].id = String(payload.new.id) THEN normalizeTask(payload.new)
                ELSE t[k]]
      [] payload.eventType = "DELETE" -> <<>>

\* Lines 192-196.
handleTaskChange(t, payload) ==
    CASE payload.eventType = "INSERT" -> Append(t, normalizeTask(payload.new))
      [] payload.eventType = "UPDATE" ->
            [k \in DOMAIN t |->
                IF t[k].id = String(payload.new.id) THEN normalizeTask(payload.new)
                ELSE t[k]]
      [] payload.eventType = "DELETE" ->
            WithoutId(t, String(payload.old.id))

\* Lines 187-191.
handleColumnChange(c, payload) ==
    CASE payload.eventType = "INSERT" -> Append(c, payload.new)
      [] payload.eventType = "UPDATE" ->
            [k \in DOMAIN c |->
                IF c[k].id = payload.new.id THEN payload.new ELSE c[k]]
      [] payload.eventType = "DELETE" ->
            SelectSeq(c, LAMBDA item : item.id # payload.old.id)

\* A faulty variant of handleEmployeeChange: the row of the event is stored
\* as it came.
handleEmployeeChangeRaw(e, payload) ==
    CASE payload.eventType = "INSERT" -> Append(e, payload.new)
      [] payload.eventType = "UPDATE" ->
            [k \in DOMAIN e |->
                IF e[k].id = String(payload.new.id) THEN payload.new ELSE e[k]]
      [] payload.eventType = "DELETE" ->
            SelectSeq(e, LAMBDA item : item.id # String(payload.old.id))

\* Lines 197-201 (handleEmployeeChange) and 202-206
\* (handleTemplateTaskChange): the two handlers have the same body.
handleEmployeeChange(e, payload) ==
    CASE payload.eventType = "INSERT" -> Append(e, normalize(payload.new))
      [] payload.eventType = "UPDATE" ->
            [k \in DOMAIN e |->
                IF e[k].id = String(payload.new.id) THEN normalize(payload.new)
                ELSE e[k]]
      [] payload.eventType = "DELETE" ->
            SelectSeq(e, LAMBDA item : item.id # String(payload.old.id))
handleTemplateTaskChange(t, payload) == handleEmployeeChange(t, payload)

\* Lines 207-211.
handleSettingsChange(h, payload) ==
    IF payload.eventType = "UPDATE" /\ payload.new.id = 1
    THEN payload.new.hiddenColumns
    ELSE h

\* Lines 218-228: the channel delivers the oldest undelivered event to the
\* handler subscribed to its table.
DeliverEvent ==
    /\ feed # <<>>
    /\ LET payload == Head(feed)
       IN CASE payload.table = "customers" ->
                 /\ customers' = handleCustomerChange(customers, payload)
                 /\ UNCHANGED <<tasks, columns, hiddenColumns, employees,
                                templateTasks>>
            [] payload.table = "tasks" ->
                 /\ tasks' = handleTaskChange(tasks, payload)
                 /\ UNCHANGED <<customers, columns, hiddenColumns, employees,
                                templateTasks>>
            [] payload.table = "columns" ->
                 /\ columns' = handleColumnChange(columns, payload)
                 /\ UNCHANGED <<customers, tasks, hiddenColumns, employees,
                                templateTasks>>
            [] payload.table = "employees" ->
                 /\ employees' = handleEmployeeChange(employees, payload)
                 /\ UNCHANGED <<customers, tasks, columns, hiddenColumns,
                                templateTasks>>
            [] payload.table = "template_tasks" ->
                 /\ templateTasks' = handleTemplateTaskChange(templateTasks, payload)
                 /\ UNCHANGED <<customers, tasks, columns, hiddenColumns,
                                employees>>
            [] payload.table = "app_settings" ->
                 /\ hiddenColumns' = handleSettingsChange(hiddenColumns, payload)
                 /\ UNCHANGED <<customers, tasks, columns, employees,
                                templateTasks>>
    /\ feed' = Tail(feed)
    /\ last' = [op |-> "DeliverEvent", payload |-> Head(feed)]
    /\ UNCHANGED <<pendingAdds, pendingTaskAdds, adds, fetches, nFetches, ops, nOps,
                   dbCustomers, dbTasks, dbSeq, alerts, dbColumns, dbSettings>>
    /\ UNCHANGED <<uiVars, staffTables>>

\* A faulty variant of handleDeleteCustomer: the delete of the customer is
\* sent first.
handleDeleteCustomerFirst(customerId) ==
    /\ nOps < MaxOps
    /\ customers' = WithoutId(customers, customerId)
    /\ ops' = Append(ops, [kind |-> "deleteCustomer", id |-> customerId,
                           pc |-> "deleteCustomer"])
    /\ nOps' = nOps + 1
    /\ last' = [op |-> "handleDeleteCustomer", id |-> customerId]
    /\ UNCHANGED <<tasks, pendingAdds, pendingTaskAdds, adds, fetches, nFetches,
                   dbCustomers, dbTasks, dbSeq, feed, alerts>>
    /\ UNCHANGED sheetVars

\* ------------------------------------------- update and delete handlers
\* Line 338: the optimistic removal; line 339: the delete of the customer's
\* tasks is sent.
handleDeleteCustomer(customerId) ==
    /\ nOps < MaxOps
    /\ customers' = WithoutId(customers, customerId)
    /\ ops' = Append(ops, [kind |-> "deleteCustomer", id |-> customerId,
                           pc |-> "deleteTasks"])
    /\ nOps' = nOps + 1
    /\ last' = [op |-> "handleDeleteCustomer", id |-> customerId]
    /\ UNCHANGED <<tasks, pendingAdds, pendingTaskAdds, adds, fetches, nFetches,
                   dbCustomers, dbTasks, dbSeq, feed, alerts>>
    /\ UNCHANGED sheetVars

\* Line 340: after the first delete has replied (its error is not looked
\* at), the delete of the customer is sent.
DeleteCustomerContinue(o) ==
    /\ ops[o].kind = "deleteCustomer"
    /\ ops[o].pc = "tasksReplied"
    /\ ops' = [ops EXCEPT ![o].pc = "deleteCustomer"]
    /\ last' = [op |-> "DeleteCustomerContinue"]
    /\ UNCHANGED <<customers, tasks, pendingAdds, pendingTaskAdds, adds, fetches,
                   nFetches, nOps, dbCustomers, dbTasks, dbSeq, feed, alerts>>
    /\ UNCHANGED sheetVars

\* Lines 424-427.
handleDeleteTask(taskId) ==
    /\ nOps < MaxOps
    /\ tasks' = WithoutId(tasks, taskId)
    /\ ops' = Append(ops, [kind |-> "deleteTask", id |-> taskId, pc |-> "delete"])
    /\ nOps' = nOps + 1
    /\ last' = [op |-> "handleDeleteTask", id |-> taskId]
    /\ UNCHANGED <<customers, pendingAdds, pendingTaskAdds, adds, fetches,
                   nFetches, dbCustomers, dbTasks, dbSeq, feed, alerts>>
    /\ UNCHANGED sheetVars

\* A faulty variant of UpdateTaskFields: the updater is not applied.
UpdateTaskFieldsSkipped(prev, taskId, updatedFields) == prev

\* Line 429: prev.map(t => t.id === taskId ? { ...t, ...updatedFields } : t)
UpdateTaskFields(prev, taskId, updatedFields) ==
    [k \in DOMAIN prev |->
        IF prev[k].id = taskId THEN Spread(prev[k], updatedFields) ELSE prev[k]]

\* Lines 428-431.
handleUpdateTask(taskId, updatedFields) ==
    /\ nOps < MaxOps
    /\ tasks' = UpdateTaskFields(tasks, taskId, updatedFields)
    /\ ops' = Append(ops, [kind |-> "updateTask", id |-> taskId, pc |-> "update",
                           fields |-> updatedFields])
    /\ nOps' = nOps + 1
    /\ last' = [op |-> "handleUpdateTask", id |-> taskId]
    /\ UNCHANGED <<customers, pendingAdds, pendingTaskAdds, adds, fetches,
                   nFetches, dbCustomers, dbTasks, dbSeq, feed, alerts>>
    /\ UNCHANGED sheetVars

\* The edits the user makes to a customer: a plain field, or custom fields.
CustomerEdits == {[name |-> "Renamed"], [data |-> [memo |-> "call"]]}
HasData(updatedFields) == "data" \in DOMAIN updatedFields

\* A faulty variant of UpdateCustomerFields: the data given replaces the
\* data held.
UpdateCustomerFieldsReplacing(prev, customerId, updatedFields) ==
    [k \in DOMAIN prev |->
        IF prev[k].id = customerId THEN Spread(prev[k], updatedFields) ELSE prev[k]]

\* Lines 310-319: { ...c, ...updatedFields,
\*   data: updatedFields.data ? { ...c.data, ...updatedFields.data } : c.data }
UpdateCustomerFields(prev, customerId, updatedFields) ==
    [k \in DOMAIN prev |->
        IF prev[k].id = customerId
        THEN [Spread(prev[k], updatedFields) EXCEPT
                 !.data = IF HasData(updatedFields)
                          THEN Spread(prev[k].data, updatedFields.data)
                          ELSE prev[k].data]
        ELSE prev[k]]

\* Lines 308-326 and 333-334: the optimistic update; then the pre-read of
\* the customer's data is sent when custom fields are edited, and the update
\* itself otherwise.
handleUpdateCustomer(customerId, updatedFields) ==
    /\ nOps < MaxOps
    /\ customers' = UpdateCustomerFields(customers, customerId, updatedFields)
    /\ ops' = Append(ops, [kind |-> "updateCustomer", id |-> customerId,
                           pc |-> IF HasData(updatedFields) THEN "read" ELSE "update",
                           fields |-> updatedFields, currentCustomer |-> NoData])
    /\ nOps' = nOps + 1
    /\ last' = [op |-> "handleUpdateCustomer", id |-> customerId]
    /\ UNCHANGED <<tasks, pendingAdds, pendingTaskAdds, adds, fetches, nFetches,
                   dbCustomers, dbTasks, dbSeq, feed, alerts>>
    /\ UNCHANGED sheetVars

\* Lines 345-350: { ...c, data: { ...c.data, [field]: value } }
UpdateCustomerDataField(prev, customerId, field, value) ==
    [k \in DOMAIN prev |->
        IF prev[k].id = customerId
        THEN [prev[k] EXCEPT !.data = Spread(@, field :> value)]
        ELSE prev[k]]

\* Lines 353-357: the pre-read handleUpdateCustomerData sends.
CustomerDataRead(customerId, field, value) ==
    [kind |-> "updateCustomerData", id |-> customerId, pc |-> "read",
     fields |-> [data |-> field :> value], currentCustomer |-> NoData]

\* Lines 343-358: the optimistic update, then the pre-read is sent.
handleUpdateCustomerData(customerId, field, value) ==
    /\ customers' = UpdateCustomerDataField(customers, customerId, field, value)
    /\ ops' = Append(ops, CustomerDataRead(customerId, field, value))
    /\ nOps' = nOps + 1
    /\ last' = [op |-> "handleUpdateCustomerData", id |-> customerId]
    /\ UNCHANGED <<tasks, pendingAdds, pendingTaskAdds, adds, fetches, nFetches,
                   dbCustomers, dbTasks, dbSeq, feed, alerts>>
    /\ UNCHANGED sheetVars

\* A faulty variant of PreReadFailed: the optimistic change is taken back
\* and the user is told.
PreReadFailedRollsBack(o) ==
    /\ ops[o].pc = "readErr"
    /\ customers' = WithoutId(customers, ops[o].id)
    /\ alerts' = Append(alerts, "update failed")
    /\ ops' = Remove(ops, o)
    /\ last' = [op |-> "PreReadFailed", request |-> ops[o]]
    /\ UNCHANGED <<tasks, pendingAdds, pendingTaskAdds, adds, fetches,
                   nFetches, nOps, dbCustomers, dbTasks, dbSeq, feed>>
    /\ UNCHANGED sheetVars

\* Lines 327 and 360: if (error || !currentCustomer) return; the handler
\* ends there and touches nothing.
PreReadFailed(o) ==
    /\ ops[o].pc = "readErr"
    /\ ops' = Remove(ops, o)
    /\ last' = [op |-> "PreReadFailed", request |-> ops[o]]
    /\ UNCHANGED <<customers, tasks, pendingAdds, pendingTaskAdds, adds, fetches,
                   nFetches, nOps, dbCustomers, dbTasks, dbSeq, feed, alerts>>
    /\ UNCHANGED sheetVars

\* Lines 329-331 and 361-362: the data read from the table, with the edited
\* custom fields over it, is sent as the update.
PreReadDone(o) ==
    /\ ops[o].pc = "readOk"
    /\ LET newData == Spread(ops[o].currentCustomer.data, ops[o].fields.data)
           finalUpdate == Spread(ops[o].fields, [data |-> newData])
       IN ops' = [ops EXCEPT ![o].pc = "update", ![o].fields = finalUpdate]
    /\ last' = [op |-> "PreReadDone"]
    /\ UNCHANGED <<customers, tasks, pendingAdds, pendingTaskAdds, adds, fetches,
                   nFetches, nOps, dbCustomers, dbTasks, dbSeq, feed, alerts>>
    /\ UNCHANGED sheetVars

\* The rows a filter .eq(column, value) selects: the gateway compares the
\* textual forms.
RowsEq(table, column, value) ==
    SelectSeq(table, LAMBDA r : String(r[column]) = value)
RowsNeq(table, column, value) ==
    SelectSeq(table, LAMBDA r : String(r[column]) # value)
DeleteEvents(tableName, rows) ==
    [k \in DOMAIN rows |-> Event(tableName, "DELETE", NoData, [id |-> rows[k].id])]
UpdatedRows(table, id, fields) ==
    [k \in DOMAIN table |->
        IF String(table[k].id) = id THEN Spread(table[k], fields) ELSE table[k]]
UpdateEvents(tableName, rows) ==
    [k \in DOMAIN rows |-> Event(tableName, "UPDATE", rows[k], NoData)]

\* select('data').eq('id', customerId).single(): the data of the one row
\* selected; an error when the read fails or does not select exactly one row.
GatewayRead(o) ==
    /\ ops[o].pc = "read"
    /\ \E ok \in BOOLEAN :
         LET rows == RowsEq(dbCustomers, "id", ops[o].id)
         IN IF ok /\ Len(rows) = 1
            THEN ops' = [ops EXCEPT ![o].pc = "readOk",
                                    ![o].currentCustomer = [data |-> rows[1].data]]
            ELSE ops' = [ops EXCEPT ![o].pc = "readErr"]
    /\ last' = [op |-> "GatewayRead"]
    /\ UNCHANGED <<customers, tasks, pendingAdds, pendingTaskAdds, adds, fetches,
                   nFetches, nOps, dbCustomers, dbTasks, dbSeq, feed, alerts>>
    /\ UNCHANGED sheetVars

\* The gateway serves the request of update/delete o: it applies it and
\* publishes one event per row touched, or fails and changes nothing.  The
\* handlers have no code after their last request, so its reply ends them.
GatewayWrite(o) ==
    /\ ops[o].pc \in {"deleteTasks", "deleteCustomer", "delete", "update"}
    /\ \E ok \in BOOLEAN :
         /\ last' = [op |-> "GatewayWrite", ok |-> ok, request |-> ops[o]]
         /\ CASE ~ok -> UNCHANGED <<dbCustomers, dbTasks, feed>>
              [] ok /\ ops[o].pc = "deleteTasks" ->
                    /\ dbTasks' = RowsNeq(dbTasks, "customerId", ops[o].id)
                    /\ feed' = feed \o DeleteEvents("tasks",
                                          RowsEq(dbTasks, "customerId", ops[o].id))
                    /\ UNCHANGED dbCustomers
              [] ok /\ ops[o].pc = "deleteCustomer" ->
                    /\ dbCustomers' = RowsNeq(dbCustomers, "id", ops[o].id)
                    /\ feed' = feed \o DeleteEvents("customers",
                                          RowsEq(dbCustomers, "id", ops[o].id))
                    /\ UNCHANGED dbTasks
              [] ok /\ ops[o].pc = "delete" ->
                    /\ dbTasks' = RowsNeq(dbTasks, "id", ops[o].id)
                    /\ feed' = feed \o DeleteEvents("tasks",
                                          RowsEq(dbTasks, "id", ops[o].id))
                    /\ UNCHANGED dbCustomers
              [] ok /\ ops[o].pc = "update" /\ ops[o].kind = "updateTask" ->
                    /\ dbTasks' = UpdatedRows(dbTasks, ops[o].id, ops[o].fields)
                    /\ feed' = feed \o UpdateEvents("tasks",
                                          RowsEq(dbTasks', "id", ops[o].id))
                    /\ UNCHANGED dbCustomers
              [] ok /\ ops[o].pc = "update" /\ ops[o].kind # "updateTask" ->
                    /\ dbCustomers' =
                          UpdatedRows(dbCustomers, ops[o].id, ops[o].fields)
                    /\ feed' = feed \o UpdateEvents("customers",
                                          RowsEq(dbCustomers', "id", ops[o].id))
                    /\ UNCHANGED dbTasks
    /\ ops' = IF ops[o].pc = "deleteTasks"
              THEN [ops EXCEPT ![o].pc = "tasksReplied"]
              ELSE Remove(ops, o)
    /\ UNCHANGED <<customers, tasks, pendingAdds, pendingTaskAdds, adds, fetches,
                   nFetches, nOps, dbSeq, alerts>>
    /\ UNCHANGED sheetVars

\* ------------------------------------------- columns and hidden columns
\* The columns and the hidden-column setting the user submits.
DraftColumns ==
    <<[id |-> "col_1", title |-> "Budget"], [id |-> "col_2", title |-> "Area"],
      [id |-> "col_3", title |-> "Source"], [id |-> "col_4", title |-> "Note"]>>

\* CustomerSheet.tsx, lines 159-166 (handleAddColumn): the column the sheet builds from the
\* k-th draft.
NewColumn(k) ==
    [id |-> DraftColumns[k].id, title |-> DraftColumns[k].title, type |-> "text",
     options |-> <<>>, order |-> Len(columns)]
HiddenDraft == [negotiation |-> <<"rank">>]

\* Lines 365-368.
handleAddColumn(column) ==
    /\ columns' = Append(columns, column)
    /\ ops' = Append(ops, [kind |-> "addColumn", pc |-> "insertColumn",
                           column |-> column])
    /\ nOps' = nOps + 1
    /\ last' = [op |-> "handleAddColumn"]
    /\ UNCHANGED <<customers, tasks, pendingAdds, pendingTaskAdds, adds, fetches,
                   nFetches, dbCustomers, dbTasks, dbSeq, feed, alerts, employees,
                   templateTasks, hiddenColumns, dbColumns, dbSettings>>
    /\ UNCHANGED <<uiVars, staffTables>>

\* Lines 369-372.
handleDeleteColumn(columnId) ==
    /\ columns' = SelectSeq(columns, LAMBDA c : c.id # columnId)
    /\ ops' = Append(ops, [kind |-> "deleteColumn", pc |-> "deleteColumn",
                           id |-> columnId])
    /\ nOps' = nOps + 1
    /\ last' = [op |-> "handleDeleteColumn", id |-> columnId]
    /\ UNCHANGED <<customers, tasks, pendingAdds, pendingTaskAdds, adds, fetches,
                   nFetches, dbCustomers, dbTasks, dbSeq, feed, alerts, employees,
                   templateTasks, hiddenColumns, dbColumns, dbSettings>>
    /\ UNCHANGED <<uiVars, staffTables>>

\* Line 375: the upsert handleUpdateColumns sends.
ColumnsUpsert(newColumns) ==
    [kind |-> "updateColumns", pc |-> "upsertColumns", columns |-> newColumns]

\* Lines 373-376.
handleUpdateColumns(newColumns) ==
    /\ columns' = newColumns
    /\ ops' = Append(ops, ColumnsUpsert(newColumns))
    /\ nOps' = nOps + 1
    /\ last' = [op |-> "handleUpdateColumns"]
    /\ UNCHANGED <<customers, tasks, pendingAdds, pendingTaskAdds, adds, fetches,
                   nFetches, dbCustomers, dbTasks, dbSeq, feed, alerts, employees,
                   templateTasks, hiddenColumns, dbColumns, dbSettings>>
    /\ UNCHANGED <<uiVars, staffTables>>

\* Line 379: the update handleUpdateHiddenColumns sends.
SettingsUpdate(newHiddenColumns) ==
    [kind |-> "updateHiddenColumns", pc |-> "updateSettings",
     hiddenColumns |-> newHiddenColumns]

\* Lines 377-380.
handleUpdateHiddenColumns(newHiddenColumns) ==
    /\ hiddenColumns' = newHiddenColumns
    /\ ops' = Append(ops, SettingsUpdate(newHiddenColumns))
    /\ nOps' = nOps + 1
    /\ last' = [op |-> "handleUpdateHiddenColumns"]
    /\ UNCHANGED <<customers, tasks, pendingAdds, pendingTaskAdds, adds, fetches,
                   nFetches, dbCustomers, dbTasks, dbSeq, feed, alerts, columns,
                   employees, templateTasks, dbColumns, dbSettings>>
    /\ UNCHANGED <<uiVars, staffTables>>

\* upsert(rows): a row whose identifier the table holds replaces the row
\* held, the others are added; every row is published, as an UPDATE or as
\* an INSERT.  A list that names an identifier twice is refused.
Upsertable(rows) ==
    \A j, k \in DOMAIN rows : rows[j].id = rows[k].id => j = k
Upserted(table, rows) ==
    [k \in DOMAIN table |->
        IF Some(rows, table[k].id) THEN WithId(rows, table[k].id)[1] ELSE table[k]]
    \o SelectSeq(rows, LAMBDA r : ~Some(table, r.id))
UpsertEvents(tableName, table, rows) ==
    [k \in DOMAIN rows |->
        Event(tableName, IF Some(table, rows[k].id) THEN "UPDATE" ELSE "INSERT",
              rows[k], NoData)]

\* The gateway serves the insert, the delete or the upsert of columns or the
\* update of the settings row: it applies it and publishes its event, or fails and changes nothing
\* (an insert under an identifier the table holds fails).  The handlers have
\* no code after the request.
GatewayWriteOther(o) ==
    /\ ops[o].pc \in {"insertColumn", "updateSettings", "deleteColumn",
                     "upsertColumns"}
    /\ \E ok \in BOOLEAN :
         CASE ok /\ ops[o].pc = "insertColumn" /\ ~Some(dbColumns, ops[o].column.id) ->
                 /\ dbColumns' = Append(dbColumns, ops[o].column)
                 /\ feed' = Append(feed, Event("columns", "INSERT", ops[o].column,
                                               NoData))
                 /\ UNCHANGED dbSettings
           [] ok /\ ops[o].pc = "updateSettings" ->
                 /\ dbSettings' =
                       [dbSettings EXCEPT !.hiddenColumns = ops[o].hiddenColumns]
                 /\ feed' = Append(feed, Event("app_settings", "UPDATE", dbSettings',
                                               NoData))
                 /\ UNCHANGED dbColumns
           [] ok /\ ops[o].pc = "deleteColumn" ->
                 /\ dbColumns' = SelectSeq(dbColumns, LAMBDA c : c.id # ops[o].id)
                 /\ feed' = feed \o DeleteEvents("columns",
                                       SelectSeq(dbColumns,
                                                 LAMBDA c : c.id = ops[o].id))
                 /\ UNCHANGED dbSettings
           [] ok /\ ops[o].pc = "upsertColumns" /\ Upsertable(ops[o].columns) ->
                 /\ dbColumns' = Upserted(dbColumns, ops[o].columns)
                 /\ feed' = feed \o UpsertEvents("columns", dbColumns,
                                                  ops[o].columns)
                 /\ UNCHANGED dbSettings
           [] OTHER -> UNCHANGED <<dbColumns, dbSettings, feed>>
    /\ ops' = Remove(ops, o)
    /\ last' = [op |-> "GatewayWriteOther"]
    /\ UNCHANGED <<customers, tasks, pendingAdds, pendingTaskAdds, adds, fetches,
                   nFetches, nOps, dbCustomers, dbTasks, dbSeq, alerts, columns,
                   employees, templateTasks, hiddenColumns>>
    /\ UNCHANGED <<uiVars, staffTables>>

\* ------------------------------------------- employees and template tasks
\* The lists the settings screen submits: the list shown with one entry
\* renamed, or with one entry added.
EmployeeEdits ==
    {Append(employees, [id |-> Str("e_1"), name |-> "Kato"])}
    \cup {[employees EXCEPT ![k].name = "Ito K."] : k \in DOMAIN employees}
TemplateTaskEdits ==
    {[templateTasks EXCEPT ![k].title = "site survey"] : k \in DOMAIN templateTasks}

\* Lines 432-434: the store takes the list and the upsert of its first
\* entry is sent.
handleUpdateEmployees(newEmployees) ==
    /\ employees' = newEmployees
    /\ ops' = Append(ops, [kind |-> "updateEmployees", pc |-> "upsertStaff",
                           table |-> "employees", rows |-> newEmployees])
    /\ nOps' = nOps + 1
    /\ last' = [op |-> "handleUpdateEmployees"]
    /\ UNCHANGED <<customers, tasks, pendingAdds, pendingTaskAdds, adds, fetches,
                   nFetches, dbCustomers, dbTasks, dbSeq, feed, alerts, columns,
                   templateTasks, hiddenColumns, dbColumns, dbSettings>>
    /\ UNCHANGED <<uiVars, staffTables>>

\* Lines 440-442.
handleUpdateTemplateTasks(newTemplateTasks) ==
    /\ templateTasks' = newTemplateTasks
    /\ ops' = Append(ops, [kind |-> "updateTemplateTasks", pc |-> "upsertStaff",
                           table |-> "template_tasks", rows |-> newTemplateTasks])
    /\ nOps' = nOps + 1
    /\ last' = [op |-> "handleUpdateTemplateTasks"]
    /\ UNCHANGED <<customers, tasks, pendingAdds, pendingTaskAdds, adds, fetches,
                   nFetches, dbCustomers, dbTasks, dbSeq, feed, alerts, columns,
                   employees, hiddenColumns, dbColumns, dbSettings>>
    /\ UNCHANGED <<uiVars, staffTables>>

\* upsert([row]) on a table whose rows are found by the textual form of the
\* identifier: the row replaces the one held under its identifier, which
\* keeps the identifier as the table holds it, or is added.
StaffHeld(table, row) == \E k \in DOMAIN table : String(table[k].id) = String(row.id)
StaffUpserted(table, row) ==
    IF StaffHeld(table, row)
    THEN [k \in DOMAIN table |->
             IF String(table[k].id) = String(row.id)
             THEN [row EXCEPT !.id = table[k].id] ELSE table[k]]
    ELSE Append(table, row)
StaffEvent(tableName, table, row) ==
    Event(tableName, IF StaffHeld(table, row) THEN "UPDATE" ELSE "INSERT",
          WithId(StaffUpserted(table, row),
                 IF StaffHeld(table, row)
                 THEN (CHOOSE r \in {table[k] : k \in DOMAIN table} :
                          String(r.id) = String(row.id)).id
                 ELSE row.id)[1],
          NoData)

\* Lines 434-437 and 442-444: the gateway serves the upsert of the entry the
\* loop stands at (its reply is not looked at) and the loop goes on to the
\* next entry; after the last one handleUpdateEmployees goes on to its
\* refresh and handleUpdateTemplateTasks ends.
GatewayUpsertStaff(o) ==
    /\ ops[o].pc = "upsertStaff"
    /\ ops[o].rows # <<>>
    /\ LET row == Head(ops[o].rows)
           tableName == ops[o].table
           table == IF tableName = "employees" THEN dbEmployees ELSE dbTemplateTasks
       IN \E ok \in BOOLEAN :
             IF ok
             THEN /\ feed' = Append(feed, StaffEvent(tableName, table, row))
                  /\ IF tableName = "employees"
                     THEN /\ dbEmployees' = StaffUpserted(table, row)
                          /\ UNCHANGED dbTemplateTasks
                     ELSE /\ dbTemplateTasks' = StaffUpserted(table, row)
                          /\ UNCHANGED dbEmployees
             ELSE UNCHANGED <<feed, dbEmployees, dbTemplateTasks>>
    /\ ops' = IF Tail(ops[o].rows) # <<>>
              THEN [ops EXCEPT ![o].rows = Tail(@)]
              ELSE IF ops[o].kind = "updateEmployees"
                   THEN [ops EXCEPT ![o].rows = <<>>, ![o].pc = "fetch"]
                   ELSE Remove(ops, o)
    /\ last' = [op |-> "GatewayUpsertStaff"]
    /\ UNCHANGED <<customers, tasks, pendingAdds, pendingTaskAdds, adds, fetches,
                   nFetches, nOps, dbCustomers, dbTasks, dbSeq, alerts, columns,
                   employees, templateTasks, hiddenColumns, dbColumns, dbSettings>>
    /\ UNCHANGED uiVars

\* Line 438: fetchAllData(), called when the loop of handleUpdateEmployees
\* has ended.
UpdateEmployeesRefresh(o) ==
    /\ ops[o].pc = "fetch"
    /\ ops' = Remove(ops, o)
    /\ nFetches' = nFetches + 1
    /\ fetches' = Append(fetches, Replies({}))
    /\ last' = [op |-> "fetchAllData"]
    /\ UNCHANGED <<customers, tasks, pendingAdds, pendingTaskAdds, adds, nOps,
                   dbCustomers, dbTasks, dbSeq, feed, alerts>>
    /\ UNCHANGED sheetVars

\* ------------------------------------------- CustomerSheet: select options
\* A faulty variant of RemoveOption: the option stays.
RemoveOptionKept(cols, columnId, optionToDelete) == cols

\* CustomerSheet.tsx, lines 355-361: newColumns.
RemoveOption(cols, columnId, optionToDelete) ==
    [k \in DOMAIN cols |->
        IF cols[k].id = columnId
        THEN [cols[k] EXCEPT
                 !.options = SelectSeq(@, LAMBDA opt : opt # optionToDelete)]
        ELSE cols[k]]

\* CustomerSheet.tsx, line 366: customer.data[columnId] === optionToDelete
UsesOption(customer, columnId, optionToDelete) ==
    /\ columnId \in DOMAIN customer.data
    /\ customer.data[columnId] = optionToDelete

\* The calls of onUpdateCustomerData made by the loop of lines 365-369 over
\* the customers of users, taken in turn: the store after their optimistic
\* updates.
RECURSIVE ResetValues(_, _, _)
ResetValues(prev, users, columnId) ==
    IF users = <<>> THEN prev
    ELSE ResetValues(UpdateCustomerDataField(prev, Head(users).id, columnId, ""),
                     Tail(users), columnId)

\* CustomerSheet.tsx, lines 351-370: onUpdateColumns(newColumns), then
\* onUpdateCustomerData(customer.id, columnId, '') for every customer that
\* uses the option; each call updates the store and sends its pre-read.
handleDeleteOption(columnId, optionToDelete) ==
    LET newColumns == RemoveOption(columns, columnId, optionToDelete)
        users == SelectSeq(customers,
                           LAMBDA c : UsesOption(c, columnId, optionToDelete))
    IN /\ columns' = newColumns
       /\ customers' = ResetValues(customers, users, columnId)
       /\ ops' = Append(ops, ColumnsUpsert(newColumns))
                 \o [k \in DOMAIN users |->
                        CustomerDataRead(users[k].id, columnId, "")]
       /\ nOps' = nOps + 1 + Len(users)
       /\ last' = [op |-> "handleDeleteOption", columnId |-> columnId,
                   option |-> optionToDelete, users |-> Len(users)]
       /\ UNCHANGED <<tasks, pendingAdds, pendingTaskAdds, adds, fetches, nFetches,
                      dbCustomers, dbTasks, dbSeq, feed, alerts, employees,
                      templateTasks, hiddenColumns, dbColumns, dbSettings>>
       /\ UNCHANGED <<uiVars, staffTables>>

\* ------------------------------------------- CustomerSheet: column order
\* findIndex: the position, counted from 0, of the first entry with the
\* identifier; -1 when there is none.
FindIndex(cols, id) ==
    IF Some(cols, id)
    THEN (CHOOSE k \in DOMAIN cols :
             /\ cols[k].id = id
             /\ \A j \in 1..(k - 1) : cols[j].id # id) - 1
    ELSE -1

\* CustomerSheet.tsx, line 128: [...columns].sort((a, b) => a.order - b.order);
\* the sort is stable.
SortPosition(cols, k) ==
    Cardinality({j \in DOMAIN cols :
                    \/ cols[j].order < cols[k].order
                    \/ cols[j].order = cols[k].order /\ j < k}) + 1
sortedColumns ==
    [p \in DOMAIN columns |->
        columns[CHOOSE k \in DOMAIN columns : SortPosition(columns, k) = p]]

\* CustomerSheet.tsx, lines 130-136.
visibleColumns ==
    IF activeTab = "All" \/ activeTab \notin DOMAIN hiddenColumns
    THEN sortedColumns
    ELSE SelectSeq(sortedColumns,
                   LAMBDA col : \A j \in DOMAIN hiddenColumns[activeTab] :
                                   hiddenColumns[activeTab][j] # col.id)

\* splice(start, 1) followed by splice(dropIndex, 0, removed), positions
\* counted from 0: a start of -1 takes the last entry, and a dropIndex past
\* the end appends.
Spliced(list, start, dropIndex) ==
    LET from == IF start < 0 THEN Len(list) ELSE start + 1
        rest == Remove(list, from)
        to == IF dropIndex > Len(rest) THEN Len(rest) ELSE dropIndex
    IN SubSeq(rest, 1, to) \o <<list[from]>> \o SubSeq(rest, to + 1, Len(rest))

\* A faulty variant of Reordered: every column gets the order dropIndex.
ReorderedFlat(cols, sorted, dragging, dropIndex) ==
    [k \in DOMAIN cols |-> [cols[k] EXCEPT !.order = dropIndex]]

\* CustomerSheet.tsx, lines 520-530: finalColumns.
Reordered(cols, sorted, dragging, dropIndex) ==
    LET startIndex == FindIndex(sorted, dragging)
        newColumnsOrder == Spliced(sorted, startIndex, dropIndex)
    IN [k \in DOMAIN cols |->
           [cols[k] EXCEPT !.order = FindIndex(newColumnsOrder, cols[k].id)]]

\* CustomerSheet.tsx, lines 492-495; a header can be dragged under the 'All'
\* tab only (line 649).
handleDragStart(columnId) ==
    /\ activeTab = "All"
    /\ draggingColumnId' = columnId
    /\ last' = [op |-> "handleDragStart"]
    /\ UNCHANGED <<customers, tasks, pendingAdds, pendingTaskAdds, adds, fetches,
                   nFetches, ops, nOps, dbCustomers, dbTasks, dbSeq, feed, alerts,
                   columns, employees, templateTasks, hiddenColumns, dbColumns,
                   dbSettings, activeTab, contextMenu>>
    /\ UNCHANGED <<staffTables, confirmationModal, editingCell>>

\* CustomerSheet.tsx, lines 508-511: the drag ends without a drop.
handleDragEnd ==
    /\ draggingColumnId # NoDrag
    /\ draggingColumnId' = NoDrag
    /\ last' = [op |-> "handleDragEnd"]
    /\ UNCHANGED <<customers, tasks, pendingAdds, pendingTaskAdds, adds, fetches,
                   nFetches, ops, nOps, dbCustomers, dbTasks, dbSeq, feed, alerts,
                   columns, employees, templateTasks, hiddenColumns, dbColumns,
                   dbSettings, activeTab, contextMenu>>
    /\ UNCHANGED <<staffTables, confirmationModal, editingCell>>

\* CustomerSheet.tsx, lines 513-533, for a drop while a column is dragged:
\* onUpdateColumns(finalColumns), then handleDragEnd().
handleDrop(dropIndex) ==
    /\ draggingColumnId # NoDrag
    /\ LET finalColumns ==
              Reordered(columns, sortedColumns, draggingColumnId, dropIndex)
       IN /\ columns' = finalColumns
          /\ ops' = Append(ops, ColumnsUpsert(finalColumns))
    /\ nOps' = nOps + 1
    /\ draggingColumnId' = NoDrag
    /\ last' = [op |-> "handleDrop", dragged |-> draggingColumnId,
                dropIndex |-> dropIndex]
    /\ UNCHANGED <<customers, tasks, pendingAdds, pendingTaskAdds, adds, fetches,
                   nFetches, dbCustomers, dbTasks, dbSeq, feed, alerts, employees,
                   templateTasks, hiddenColumns, dbColumns, dbSettings, activeTab, contextMenu>>
    /\ UNCHANGED <<staffTables, confirmationModal, editingCell>>

\* ------------------------------------------- the offline variant
\* src/unnamed/part_001: the application without the gateway.  Its stores
\* start from the constants and its handlers change the stores only; the
\* tables, the requests and the sheet stay as they are.
OfflineCustomers ==
    <<[id |-> Str("1"), name |-> "Seed", data |-> [memo |-> "", rank |-> "A"],
       created_at |-> "tz"],
      [id |-> Str("2"), name |-> "Mori", data |-> [memo |-> "", rank |-> "B"],
       created_at |-> "tz"]>>
OfflineTasks ==
    <<[id |-> Str("1"), customerId |-> Str("1"), title |-> "seed", created_at |-> "tz"],
      [id |-> Str("2"), customerId |-> Str("2"), title |-> "visit", created_at |-> "tz"],
      [id |-> Str("3"), customerId |-> Str("1"), title |-> "quote", created_at |-> "tz"]>>

InitOffline ==
    /\ customers = OfflineCustomers
    /\ tasks = OfflineTasks
    /\ pendingAdds = {}
    /\ pendingTaskAdds = {}
    /\ adds = <<>>
    /\ fetches = <<>>
    /\ nFetches = 0
    /\ ops = <<>>
    /\ nOps = 0
    /\ dbCustomers = <<>>
    /\ dbTasks = <<>>
    /\ dbSeq = [customers |-> 1, tasks |-> 1]
    /\ feed = <<>>
    /\ alerts = <<>>
    /\ last = [op |-> "init"]
    /\ columns = SeedColumns
    /\ employees = <<>>
    /\ templateTasks = <<>>
    /\ hiddenColumns = NoHidden
    /\ dbColumns = <<>>
    /\ dbSettings = SeedSettings
    /\ dbEmployees = <<>>
    /\ dbTemplateTasks = <<>>
    /\ activeTab = "All"
    /\ draggingColumnId = NoDrag
    /\ contextMenu = <<>>
    /\ confirmationModal = NoData
    /\ editingCell = NoData

\* What the offline handlers leave alone; nOps counts the records created,
\* and stands for the clock the identifiers are taken from.
offlineFrame ==
    <<pendingAdds, pendingTaskAdds, adds, fetches, nFetches, ops, dbCustomers,
      dbTasks, dbSeq, feed, alerts, sheetVars>>

\* part_001, lines 47-54.
handleAddCustomerOffline(customerData) ==
    /\ customers' =
          <<NewCustomer(customerData, CustomerLocalId(nOps + 1))>> \o customers
    /\ nOps' = nOps + 1
    /\ last' = [op |-> "handleAddCustomerOffline"]
    /\ UNCHANGED <<tasks, offlineFrame>>

\* part_001, lines 98-105.
handleAddTaskOffline(task) ==
    /\ tasks' = Append(tasks, NewTask(task, TaskLocalId(nOps + 1)))
    /\ nOps' = nOps + 1
    /\ last' = [op |-> "handleAddTaskOffline"]
    /\ UNCHANGED <<customers, offlineFrame>>

\* A faulty variant of WithoutTasksOf: the tasks are kept.
WithoutTasksOfKept(prev, customerId) == prev

\* part_001, line 75: prev.filter(t => t.customerId !== customerId)
WithoutTasksOf(prev, customerId) ==
    SelectSeq(prev, LAMBDA t : t.customerId # customerId)

\* part_001, lines 73-76.
handleDeleteCustomerOffline(customerId) ==
    /\ customers' = WithoutId(customers, customerId)
    /\ tasks' = WithoutTasksOf(tasks, customerId)
    /\ last' = [op |-> "handleDeleteCustomerOffline", id |-> customerId]
    /\ UNCHANGED <<nOps, offlineFrame>>

\* part_001, lines 111-113.
handleDeleteTaskOffline(taskId) ==
    /\ tasks' = WithoutId(tasks, taskId)
    /\ last' = [op |-> "handleDeleteTaskOffline", id |-> taskId]
    /\ UNCHANGED <<customers, nOps, offlineFrame>>

\* ------------------------------------------------- column hiding per status tab
\* CustomerSheet.tsx 184-211 and the tab buttons (lines 539-552).

\* Two of the values of CustomerStatus, each shown as a tab.
StatusTabs == {"negotiation", "contracted"}

\* hiddenColumns[tab] || []
HiddenList(hidden, tab) == IF tab \in DOMAIN hidden THEN hidden[tab] ELSE <<>>

\* Lines 192-195: the record handleHideColumn passes on.
HideColumn(hidden, tab, columnId) ==
    Spread(hidden, tab :> Append(HiddenList(hidden, tab), columnId))

\* Lines 201-204: the record handleShowColumn passes on.
ShowColumn(hidden, tab, columnId) ==
    Spread(hidden, tab :> SelectSeq(HiddenList(hidden, tab),
                                    LAMBDA id : id # columnId))

\* Lines 207-211: the columns listed in the hidden-columns panel.
hiddenForCurrentTab ==
    IF activeTab = "All" \/ activeTab \notin DOMAIN hiddenColumns
    THEN <<>>
    ELSE SelectSeq(columns,
                   LAMBDA c : \E j \in DOMAIN hiddenColumns[activeTab] :
                                 hiddenColumns[activeTab][j] = c.id)

\* Lines 540 and 551: a tab button is activated.  A mouse click first closes an
\* open context menu (closeContextMenu); keyboard activation leaves it open.
setActiveTab(tab) ==
    /\ activeTab' = tab
    /\ last' = [op |-> "setActiveTab", tab |-> tab]
    /\ UNCHANGED <<customers, tasks, pendingAdds, pendingTaskAdds, adds, fetches,
                   nFetches, ops, nOps, dbCustomers, dbTasks, dbSeq, feed, alerts,
                   columns, employees, templateTasks, hiddenColumns, dbColumns,
                   dbSettings, draggingColumnId, contextMenu>>
    /\ UNCHANGED <<staffTables, confirmationModal, editingCell>>

\* Lines 184-188: right click on a column header.
handleContextMenu(columnId) ==
    /\ contextMenu' = IF activeTab = "All" THEN contextMenu ELSE <<columnId>>
    /\ last' = [op |-> "handleContextMenu", tab |-> activeTab, columnId |-> columnId]
    /\ UNCHANGED <<customers, tasks, pendingAdds, pendingTaskAdds, adds, fetches,
                   nFetches, ops, nOps, dbCustomers, dbTasks, dbSeq, feed, alerts,
                   columns, employees, templateTasks, hiddenColumns, dbColumns,
                   dbSettings, activeTab, draggingColumnId>>
    /\ UNCHANGED <<staffTables, confirmationModal, editingCell>>

\* Lines 174-181: a mouse press outside the open context menu closes it.
closeContextMenu ==
    /\ contextMenu # <<>>
    /\ contextMenu' = <<>>
    /\ last' = [op |-> "closeContextMenu"]
    /\ UNCHANGED <<customers, tasks, pendingAdds, pendingTaskAdds, adds, fetches,
                   nFetches, ops, nOps, dbCustomers, dbTasks, dbSeq, feed, alerts,
                   columns, employees, templateTasks, hiddenColumns, dbColumns,
                   dbSettings, activeTab, draggingColumnId>>
    /\ UNCHANGED <<staffTables, confirmationModal, editingCell>>

\* Lines 190-197, with App.tsx 377-380 behind onUpdateHiddenColumns.
handleHideColumn(columnId) ==
    /\ last' = [op |-> "handleHideColumn", tab |-> activeTab, columnId |-> columnId]
    /\ IF activeTab = "All"
       THEN UNCHANGED <<hiddenColumns, ops, nOps, contextMenu>>
       ELSE /\ hiddenColumns' = HideColumn(hiddenColumns, activeTab, columnId)
            /\ ops' = Append(ops, SettingsUpdate(hiddenColumns'))
            /\ nOps' = nOps + 1
            /\ contextMenu' = <<>>
    /\ UNCHANGED <<customers, tasks, pendingAdds, pendingTaskAdds, adds, fetches,
                   nFetches, dbCustomers, dbTasks, dbSeq, feed, alerts,
                   columns, employees, templateTasks, dbColumns,
                   dbSettings, activeTab, draggingColumnId>>
    /\ UNCHANGED <<staffTables, confirmationModal, editingCell>>

\* Lines 199-205, with App.tsx 377-380 behind onUpdateHiddenColumns.
handleShowColumn(columnId) ==
    /\ last' = [op |-> "handleShowColumn", tab |-> activeTab, columnId |-> columnId]
    /\ IF activeTab = "All"
       THEN UNCHANGED <<hiddenColumns, ops, nOps>>
       ELSE /\ hiddenColumns' = ShowColumn(hiddenColumns, activeTab, columnId)
            /\ ops' = Append(ops, SettingsUpdate(hiddenColumns'))
            /\ nOps' = nOps + 1
    /\ UNCHANGED <<customers, tasks, pendingAdds, pendingTaskAdds, adds, fetches,
                   nFetches, dbCustomers, dbTasks, dbSeq, feed, alerts,
                   columns, employees, templateTasks, dbColumns,
                   dbSettings, activeTab, draggingColumnId, contextMenu>>
    /\ UNCHANGED <<staffTables, confirmationModal, editingCell>>

\* ----------------------------------------- customer delete confirmation dialogs
\* CustomerSheet.tsx 440-477 and the dialog's two buttons (lines 851-871).  The
\* dialog is kept as the stage it shows and the customer its closures captured;
\* setExpandedRowId (a display flag of the row) is left out.

\* Lines 441-452: the dialog handleDeleteCustomerRequest opens.
DeleteDialog(customerId) == [stage |-> "delete", id |-> customerId]

\* Lines 456-476: the dialog showFinalDeleteConfirmation opens.
FinalDeleteDialog(customerId) == [stage |-> "final", id |-> customerId]

\* A faulty variant of handleDeleteCustomerRequest: the final dialog is opened
\* at once.
handleDeleteCustomerRequestFinal(customerId) ==
    /\ confirmationModal' = FinalDeleteDialog(customerId)
    /\ last' = [op |-> "handleDeleteCustomerRequest", id |-> customerId]
    /\ UNCHANGED <<customers, tasks, pendingAdds, pendingTaskAdds, adds, fetches,
                   nFetches, ops, nOps, dbCustomers, dbTasks, dbSeq, feed, alerts,
                   columns, employees, templateTasks, hiddenColumns, dbColumns,
                   dbSettings, activeTab, draggingColumnId, contextMenu>>
    /\ UNCHANGED <<staffTables, editingCell>>

\* Lines 440-453 (called from the row's delete button, line 832).
handleDeleteCustomerRequest(customerId) ==
    /\ confirmationModal' = DeleteDialog(customerId)
    /\ last' = [op |-> "handleDeleteCustomerRequest", id |-> customerId]
    /\ UNCHANGED <<customers, tasks, pendingAdds, pendingTaskAdds, adds, fetches,
                   nFetches, ops, nOps, dbCustomers, dbTasks, dbSeq, feed, alerts,
                   columns, employees, templateTasks, hiddenColumns, dbColumns,
                   dbSettings, activeTab, draggingColumnId, contextMenu>>
    /\ UNCHANGED <<staffTables, editingCell>>

\* Line 448 through line 866: the first dialog's confirm button runs
\* showFinalDeleteConfirmation (lines 455-477).
showFinalDeleteConfirmation ==
    /\ confirmationModal # NoData
    /\ confirmationModal.stage = "delete"
    /\ confirmationModal' = FinalDeleteDialog(confirmationModal.id)
    /\ last' = [op |-> "showFinalDeleteConfirmation", id |-> confirmationModal.id]
    /\ UNCHANGED <<customers, tasks, pendingAdds, pendingTaskAdds, adds, fetches,
                   nFetches, ops, nOps, dbCustomers, dbTasks, dbSeq, feed, alerts,
                   columns, employees, templateTasks, hiddenColumns, dbColumns,
                   dbSettings, activeTab, draggingColumnId, contextMenu>>
    /\ UNCHANGED <<staffTables, editingCell>>

\* Lines 468-472 through line 866: the final dialog's confirm button calls
\* onDeleteCustomer (App.tsx 337-339: the optimistic removal and the first
\* delete request) and closes the dialog.
finalDeleteOnConfirm ==
    /\ confirmationModal # NoData
    /\ confirmationModal.stage = "final"
    /\ customers' = WithoutId(customers, confirmationModal.id)
    /\ ops' = Append(ops, [kind |-> "deleteCustomer", id |-> confirmationModal.id,
                           pc |-> "deleteTasks"])
    /\ nOps' = nOps + 1
    /\ confirmationModal' = NoData
    /\ last' = [op |-> "onDeleteCustomer", id |-> confirmationModal.id]
    /\ UNCHANGED <<tasks, pendingAdds, pendingTaskAdds, adds, fetches,
                   nFetches, dbCustomers, dbTasks, dbSeq, feed, alerts,
                   columns, employees, templateTasks, hiddenColumns, dbColumns,
                   dbSettings, activeTab, draggingColumnId, contextMenu>>
    /\ UNCHANGED <<staffTables, editingCell>>

\* Lines 449 and 473 through line 860: the cancel button of either dialog.
confirmationOnCancel ==
    /\ confirmationModal # NoData
    /\ confirmationModal' = NoData
    /\ last' = [op |-> "onCancel", stage |-> confirmationModal.stage]
    /\ UNCHANGED <<customers, tasks, pendingAdds, pendingTaskAdds, adds, fetches,
                   nFetches, ops, nOps, dbCustomers, dbTasks, dbSeq, feed, alerts,
                   columns, employees, templateTasks, hiddenColumns, dbColumns,
                   dbSettings, activeTab, draggingColumnId, contextMenu>>
    /\ UNCHANGED <<staffTables, editingCell>>

\* ------------------------------------------------------- another session's write
\* App.tsx 217-225: the channel delivers every change of the columns table,
\* also those made by another session.  Such a session deletes a column: the
\* row leaves the table and its DELETE event is published.
peerDeleteColumn(columnId) ==
    /\ Some(dbColumns, columnId)
    /\ dbColumns' = SelectSeq(dbColumns, LAMBDA c : c.id # columnId)
    /\ feed' = feed \o DeleteEvents("columns",
                                    SelectSeq(dbColumns, LAMBDA c : c.id = columnId))
    /\ last' = [op |-> "peerDeleteColumn", id |-> columnId]
    /\ UNCHANGED <<customers, tasks, pendingAdds, pendingTaskAdds, adds, fetches,
                   nFetches, ops, nOps, dbCustomers, dbTasks, dbSeq, alerts, columns,
                   employees, templateTasks, hiddenColumns, dbSettings>>
    /\ UNCHANGED <<uiVars, staffTables>>

\* ------------------------------------------------------------------ cell editing
\* CustomerSheet.tsx 272-323.  Cell values are tagged as identifiers are: Num(n)
\* is a number, Str(s) a string.

\* String(value).replace(/,/g, '')
RECURSIVE StripCommas(_)
StripCommas(s) ==
    IF Len(s) = 0 THEN ""
    ELSE (IF SubSeq(s, 1, 1) = "," THEN "" ELSE SubSeq(s, 1, 1))
             \o StripCommas(SubSeq(s, 2, Len(s)))

IsDigit(c) == \E d \in DOMAIN DigitChar : DigitChar[d] = c
DigitValue(c) == (CHOOSE d \in DOMAIN DigitChar : DigitChar[d] = c) - 1
IsDigits(s) == \A k \in 1..Len(s) : IsDigit(SubSeq(s, k, k))

RECURSIVE DigitsValue(_)
DigitsValue(s) ==
    IF Len(s) = 0 THEN 0
    ELSE 10 * DigitsValue(SubSeq(s, 1, Len(s) - 1)) + DigitValue(SubSeq(s, Len(s), Len(s)))

\* Number(value) || 0 for a number or a string of the enumerated values: the
\* empty string is 0, a string of digits its value, any other string NaN, and
\* NaN || 0 is 0.
NumberOrZero(value) ==
    IF ~IsStr(value) THEN value.num
    ELSE IF IsDigits(value.str) THEN DigitsValue(value.str) ELSE 0

\* Line 298 and line 313: Number(String(newValue).replace(/,/g, '')) || 0
NewNumber(newValue) == NumberOrZero(Str(StripCommas(String(newValue).str)))

\* Lines 278-279 and 290-291: customer?.data[field] ?? ''
StoredValue(customerId, field) ==
    IF Some(customers, customerId) /\ field \in DOMAIN WithId(customers, customerId)[1].data
    THEN WithId(customers, customerId)[1].data[field]
    ELSE Str("")

\* Line 293: columns.find(c => c.id === field), read for its type.
ColumnType(field) ==
    IF Some(columns, field) THEN WithId(columns, field)[1].type ELSE "undefined"

\* A faulty variant of isChanged: the string forms are compared for every
\* column type.
isChangedByString(type, newValue, oldValue) == String(newValue) # String(oldValue)

\* Lines 294-302.
isChanged(type, newValue, oldValue) ==
    IF type = "currency"
    THEN NumberOrZero(oldValue) # NewNumber(newValue)
    ELSE String(newValue) # String(oldValue)

\* Lines 311-314.
finalValue(type, newValue) ==
    IF type = "currency" THEN Num(NewNumber(newValue)) ELSE newValue

\* Lines 272-280.
handleCellFocus(customerId, field) ==
    /\ editingCell' = [customerId |-> customerId, field |-> field,
                       value |-> StoredValue(customerId, field)]
    /\ last' = [op |-> "handleCellFocus"]
    /\ UNCHANGED <<customers, tasks, pendingAdds, pendingTaskAdds, adds, fetches,
                   nFetches, ops, nOps, dbCustomers, dbTasks, dbSeq, feed, alerts,
                   columns, employees, templateTasks, hiddenColumns, dbColumns,
                   dbSettings, activeTab, draggingColumnId, contextMenu,
                   confirmationModal>>
    /\ UNCHANGED staffTables

\* Lines 281-285, from the onChange of the cell's input (lines 717, 778, 788).
handleCellValueChange(newValue) ==
    /\ editingCell' = IF editingCell = NoData THEN editingCell
                      ELSE [editingCell EXCEPT !.value = newValue]
    /\ last' = [op |-> "handleCellValueChange"]
    /\ UNCHANGED <<customers, tasks, pendingAdds, pendingTaskAdds, adds, fetches,
                   nFetches, ops, nOps, dbCustomers, dbTasks, dbSeq, feed, alerts,
                   columns, employees, templateTasks, hiddenColumns, dbColumns,
                   dbSettings, activeTab, draggingColumnId, contextMenu,
                   confirmationModal>>
    /\ UNCHANGED staffTables

\* Lines 319-323 with triggerConfirmation (lines 287-317) and, behind
\* onUpdateCustomerData, App.tsx 343-356.
handleCellBlur ==
    /\ editingCell # NoData
    /\ LET customerId == editingCell.customerId
           field == editingCell.field
           newValue == editingCell.value
           oldValue == StoredValue(customerId, field)
           type == ColumnType(field)
       IN /\ last' = [op |-> "handleCellBlur", type |-> type, newValue |-> newValue,
                      oldValue |-> oldValue, dialog |-> confirmationModal # NoData]
          /\ IF confirmationModal # NoData
             THEN UNCHANGED <<customers, ops, nOps, editingCell>>
             ELSE IF ~isChanged(type, newValue, oldValue)
             THEN /\ editingCell' = NoData
                  /\ UNCHANGED <<customers, ops, nOps>>
             ELSE /\ customers' = UpdateCustomerDataField(customers, customerId, field,
                                                          finalValue(type, newValue))
                  /\ ops' = Append(ops, CustomerDataRead(customerId, field,
                                                         finalValue(type, newValue)))
                  /\ nOps' = nOps + 1
                  /\ editingCell' = NoData
    /\ UNCHANGED <<tasks, pendingAdds, pendingTaskAdds, adds, fetches,
                   nFetches, dbCustomers, dbTasks, dbSeq, feed, alerts,
                   columns, employees, templateTasks, hiddenColumns, dbColumns,
                   dbSettings, activeTab, draggingColumnId, contextMenu,
                   confirmationModal>>
    /\ UNCHANGED staffTables

\* ----------------------------------------------------------- specification
Next ==
    \/ handleAddCustomer([name |-> DraftNames[Len(adds) + 1], data |-> DraftData])
    \/ \E cid \in Ids(customers) :
          handleAddTask([customerId |-> cid, title |-> DraftTitles[Len(adds) + 1]])
    \/ \E i \in DOMAIN adds : GatewayInsert(i)
    \/ \E i \in DOMAIN adds : AddCustomerSuccess(i)
    \/ \E i \in DOMAIN adds : AddCustomerFail(i)
    \/ \E i \in DOMAIN adds : CustomerTimer(i)
    \/ \E i \in DOMAIN adds : AddTaskSuccess(i)
    \/ \E i \in DOMAIN adds : AddTaskFail(i)
    \/ \E i \in DOMAIN adds : TaskTimer(i)
    \/ fetchAllData
    \/ \E f \in DOMAIN fetches : FetchComplete(f)
    \/ DeliverEvent

\* Creates, refreshes, change-feed delivery and grace timers.
Spec == Init /\ [][Next]_vars

\* The same with the update and delete handlers.
NextCrud ==
    \/ Next
    \/ \E id \in Ids(customers) : handleDeleteCustomer(id)
    \/ \E o \in DOMAIN ops : DeleteCustomerContinue(o)
    \/ \E id \in Ids(tasks) : handleDeleteTask(id)
    \/ \E id \in Ids(tasks) : handleUpdateTask(id, [title |-> "revised"])
    \/ \E id \in Ids(customers), updatedFields \in CustomerEdits :
          handleUpdateCustomer(id, updatedFields)
    \/ \E id \in Ids(customers) :
          nOps < MaxOps /\ handleUpdateCustomerData(id, "memo", "visit")
    \/ \E o \in DOMAIN ops : GatewayRead(o)
    \/ \E o \in DOMAIN ops : PreReadFailed(o)
    \/ \E o \in DOMAIN ops : PreReadDone(o)
    \/ \E o \in DOMAIN ops : GatewayWrite(o)

SpecCrud == Init /\ [][NextCrud]_vars

\* Creates, refreshes and change-feed delivery, where a reply that has
\* arrived is handled and a timer that was set fires: the host's event loop
\* runs every continuation and timer callback that is due.
NextRelease ==
    \/ handleAddCustomer([name |-> DraftNames[Len(adds) + 1], data |-> DraftData])
    \/ \E cid \in Ids(customers) :
          handleAddTask([customerId |-> cid, title |-> DraftTitles[Len(adds) + 1]])
    \/ \E i \in DOMAIN adds : GatewayInsert(i)
    \/ \E i \in DOMAIN adds : AddCustomerSuccess(i)
    \/ \E i \in DOMAIN adds : AddCustomerFail(i)
    \/ \E i \in DOMAIN adds : CustomerTimer(i)
    \/ \E i \in DOMAIN adds : AddTaskSuccess(i)
    \/ \E i \in DOMAIN adds : AddTaskFail(i)
    \/ \E i \in DOMAIN adds : TaskTimer(i)
    \/ nFetches < MaxGraceFetches /\ fetchAllData
    \/ \E f \in DOMAIN fetches : FetchComplete(f)
    \/ DeliverEvent

SpecRelease ==
    /\ Init
    /\ [][NextRelease]_vars
    /\ WF_vars(\E i \in DOMAIN adds : AddCustomerSuccess(i))
    /\ WF_vars(\E i \in DOMAIN adds : AddCustomerFail(i))
    /\ WF_vars(\E i \in DOMAIN adds : CustomerTimer(i))
    /\ WF_vars(\E i \in DOMAIN adds : AddTaskSuccess(i))
    /\ WF_vars(\E i \in DOMAIN adds : AddTaskFail(i))
    /\ WF_vars(\E i \in DOMAIN adds : TaskTimer(i))

\* Refreshes, change-feed delivery and the update and delete handlers, on
\* the records the tables were seeded with.
NextOps ==
    \/ fetchAllData
    \/ \E f \in DOMAIN fetches : FetchComplete(f)
    \/ DeliverEvent
    \/ \E id \in Ids(customers) : handleDeleteCustomer(id)
    \/ \E o \in DOMAIN ops : DeleteCustomerContinue(o)
    \/ \E id \in Ids(tasks) : handleDeleteTask(id)
    \/ \E id \in Ids(tasks) : handleUpdateTask(id, [title |-> "revised"])
    \/ \E id \in Ids(customers), updatedFields \in CustomerEdits :
          handleUpdateCustomer(id, updatedFields)
    \/ \E id \in Ids(customers) :
          nOps < MaxOps /\ handleUpdateCustomerData(id, "memo", "visit")
    \/ \E o \in DOMAIN ops : GatewayRead(o)
    \/ \E o \in DOMAIN ops : PreReadFailed(o)
    \/ \E o \in DOMAIN ops : PreReadDone(o)
    \/ \E o \in DOMAIN ops : GatewayWrite(o)

SpecOps == Init /\ [][NextOps]_vars

\* Refreshes, the column and hidden-column handlers and the change feed.
NextSheet ==
    \/ fetchAllDataOthers
    \/ \E f \in DOMAIN fetches : FetchComplete(f)
    \/ DeliverEvent
    \/ nOps < MaxOps /\ handleAddColumn(NewColumn(nOps + 1))
    \/ nOps < MaxOps /\ handleUpdateHiddenColumns(HiddenDraft)
    \/ \E o \in DOMAIN ops : GatewayWriteOther(o)

SpecSheet == Init /\ [][NextSheet]_vars

\* The state in which the initial load (setupData, line 148) leaves the
\* application when its reads succeed: Init, fetchAllData, FetchComplete.
InitialLoad ==
    [customersData |-> SelectReply(SeedCustomers, FALSE),
     columnsData |-> SelectReply(SeedColumns, FALSE),
     tasksData |-> SelectReply(SeedTasks, FALSE),
     employeesData |-> SelectReply(SeedEmployees, FALSE),
     templateTasksData |-> SelectReply(SeedTemplateTasks, FALSE),
     settingsData |-> SingleReply(SeedSettings, FALSE)]

InitLoaded ==
    /\ customers = MergeCustomers(<<>>, {}, InitialLoad.customersData)
    /\ tasks = MergeTasks(<<>>, {}, InitialLoad.tasksData)
    /\ pendingAdds = {}
    /\ pendingTaskAdds = {}
    /\ adds = <<>>
    /\ fetches = <<>>
    /\ nFetches = 1
    /\ ops = <<>>
    /\ nOps = 0
    /\ dbCustomers = SeedCustomers
    /\ dbTasks = SeedTasks
    /\ dbSeq = [customers |-> 2, tasks |-> 3]
    /\ feed = <<>>
    /\ alerts = <<>>
    /\ last = [op |-> "FetchComplete", reply |-> InitialLoad]
    /\ columns = FetchedColumns(InitialLoad.columnsData)
    /\ employees = FetchedEmployees(InitialLoad.employeesData)
    /\ templateTasks = FetchedTemplateTasks(InitialLoad.templateTasksData)
    /\ hiddenColumns = FetchedHiddenColumns(InitialLoad.settingsData)
    /\ dbColumns = SeedColumns
    /\ dbSettings = SeedSettings
    /\ dbEmployees = SeedEmployees
    /\ dbTemplateTasks = SeedTemplateTasks
    /\ activeTab = "All"
    /\ draggingColumnId = NoDrag
    /\ contextMenu = <<>>
    /\ confirmationModal = NoData
    /\ editingCell = NoData

\* Every handler that writes to the remote tables, with the gateway and the
\* change feed, from the loaded application on; at most MaxWrites of them
\* are called.
WritesLeft == Len(adds) + nOps < MaxWrites

NextWrites ==
    \/ /\ WritesLeft
       /\ handleAddCustomer([name |-> DraftNames[Len(adds) + 1], data |-> DraftData])
    \/ \E cid \in Ids(customers) :
          /\ WritesLeft
          /\ handleAddTask([customerId |-> cid, title |-> DraftTitles[Len(adds) + 1]])
    \/ \E i \in DOMAIN adds : GatewayInsert(i)
    \/ \E i \in DOMAIN adds : AddCustomerSuccess(i)
    \/ \E i \in DOMAIN adds : AddCustomerFail(i)
    \/ \E i \in DOMAIN adds : CustomerTimer(i)
    \/ \E i \in DOMAIN adds : AddTaskSuccess(i)
    \/ \E i \in DOMAIN adds : AddTaskFail(i)
    \/ \E i \in DOMAIN adds : TaskTimer(i)
    \/ DeliverEvent
    \/ \E id \in Ids(customers) : WritesLeft /\ handleDeleteCustomer(id)
    \/ \E o \in DOMAIN ops : DeleteCustomerContinue(o)
    \/ \E id \in Ids(tasks) : WritesLeft /\ handleDeleteTask(id)
    \/ \E id \in Ids(tasks) :
          WritesLeft /\ handleUpdateTask(id, [title |-> "revised"])
    \/ \E id \in Ids(customers), updatedFields \in CustomerEdits :
          WritesLeft /\ handleUpdateCustomer(id, updatedFields)
    \/ \E id \in Ids(customers) :
          /\ WritesLeft /\ nOps < MaxOps
          /\ handleUpdateCustomerData(id, "memo", "visit")
    \/ \E o \in DOMAIN ops : GatewayRead(o)
    \/ \E o \in DOMAIN ops : PreReadFailed(o)
    \/ \E o \in DOMAIN ops : PreReadDone(o)
    \/ \E o \in DOMAIN ops : GatewayWrite(o)

SpecWrites == InitLoaded /\ [][NextWrites]_vars

\* The customer sheet on the loaded application: the user adds and deletes
\* columns and deletes select options; the gateway serves the requests and the change feed delivers
\* their events.  At most MaxSheetOps requests are issued.
SheetOpsLeft == nOps < MaxSheetOps

NextColumns ==
    \/ SheetOpsLeft /\ handleAddColumn(NewColumn(nOps + 1))
    \/ \E columnId \in Ids(columns) : SheetOpsLeft /\ handleDeleteColumn(columnId)
    \/ \E k \in DOMAIN columns : \E j \in DOMAIN columns[k].options :
          SheetOpsLeft /\ handleDeleteOption(columns[k].id, columns[k].options[j])
    \/ \E o \in DOMAIN ops : GatewayWriteOther(o)
    \/ \E o \in DOMAIN ops : GatewayRead(o)
    \/ \E o \in DOMAIN ops : PreReadFailed(o)
    \/ \E o \in DOMAIN ops : PreReadDone(o)
    \/ \E o \in DOMAIN ops : GatewayWrite(o)
    \/ DeliverEvent

SpecColumns == InitLoaded /\ [][NextColumns]_vars

\* Every path by which a record enters the customer, task, employee and
\* template-task stores, from the loaded application on: creates with their
\* replies, refreshes, the change feed, and the updates of the employees and
\* of the template tasks.  At most MaxWrites creates, refreshes and updates
\* are called, and the reads of the refreshes succeed.
EntriesLeft == Len(adds) + nOps + (nFetches - 1) < MaxWrites

NextEntries ==
    \/ /\ EntriesLeft
       /\ handleAddCustomer([name |-> DraftNames[Len(adds) + 1], data |-> DraftData])
    \/ \E cid \in Ids(customers) :
          /\ EntriesLeft
          /\ handleAddTask([customerId |-> cid, title |-> DraftTitles[Len(adds) + 1]])
    \/ \E i \in DOMAIN adds : GatewayInsert(i)
    \/ \E i \in DOMAIN adds : AddCustomerSuccess(i)
    \/ \E i \in DOMAIN adds : AddCustomerFail(i)
    \/ \E i \in DOMAIN adds : AddTaskSuccess(i)
    \/ \E i \in DOMAIN adds : AddTaskFail(i)
    \/ EntriesLeft /\ fetchAllDataWhere({{}})
    \/ \E f \in DOMAIN fetches : FetchComplete(f)
    \/ DeliverEvent
    \/ \E newEmployees \in EmployeeEdits :
          EntriesLeft /\ handleUpdateEmployees(newEmployees)
    \/ \E newTemplateTasks \in TemplateTaskEdits :
          EntriesLeft /\ handleUpdateTemplateTasks(newTemplateTasks)
    \/ \E o \in DOMAIN ops : GatewayUpsertStaff(o)
    \/ \E o \in DOMAIN ops : UpdateEmployeesRefresh(o)

SpecEntries == InitLoaded /\ [][NextEntries]_vars

\* The column headers of the customer sheet on the loaded application: the
\* user adds and deletes columns and drags a header onto another; the
\* gateway serves the requests and the change feed delivers their events.
NextDrag ==
    \/ SheetOpsLeft /\ handleAddColumn(NewColumn(nOps + 1))
    \/ \E columnId \in Ids(columns) : SheetOpsLeft /\ handleDeleteColumn(columnId)
    \/ \E columnId \in Ids(visibleColumns) : handleDragStart(columnId)
    \/ handleDragEnd
    \/ \E dropIndex \in 0..(Len(visibleColumns) - 1) :
          SheetOpsLeft /\ handleDrop(dropIndex)
    \/ \E o \in DOMAIN ops : GatewayWriteOther(o)
    \/ DeliverEvent

SpecDrag == InitLoaded /\ [][NextDrag]_vars

\* part_001, line 53: [newCustomer, ...prev]
AddCustomerOffline(prev, newCustomer) == <<newCustomer>> \o prev

\* part_001, line 104: [...prev, newTask]
AddTaskOffline(prev, newTask) == Append(prev, newTask)

\* part_001, line 57: prev.map(c => c.id === customerId ? { ...c, ...updatedFields } : c)
UpdateCustomerOffline(prev, customerId, updatedFields) ==
    [k \in DOMAIN prev |->
        IF prev[k].id = customerId THEN Spread(prev[k], updatedFields) ELSE prev[k]]

\* The offline variant: customers and tasks are created and deleted; at most
\* MaxWrites records are created.
NextOffline ==
    \/ /\ nOps < MaxWrites
       /\ handleAddCustomerOffline([name |-> DraftNames[nOps + 1], data |-> DraftData])
    \/ \E cid \in Ids(customers) :
          /\ nOps < MaxWrites
          /\ handleAddTaskOffline([customerId |-> cid, title |-> DraftTitles[nOps + 1]])
    \/ \E id \in Ids(customers) : handleDeleteCustomerOffline(id)
    \/ \E id \in Ids(tasks) : handleDeleteTaskOffline(id)

SpecOffline == InitOffline /\ [][NextOffline]_vars

\* The customer sheet's tabs, context menu and hidden-columns panel, with the
\* gateway serving the settings updates and the change feed delivering them.
NextHide ==
    \/ \E tab \in {"All"} \cup StatusTabs : setActiveTab(tab)
    \/ \E columnId \in Ids(visibleColumns) : handleContextMenu(columnId)
    \/ closeContextMenu
    \/ /\ contextMenu # <<>>
       /\ activeTab = "All" \/ SheetOpsLeft
       /\ handleHideColumn(contextMenu[1])
    \/ \E columnId \in Ids(hiddenForCurrentTab) :
          SheetOpsLeft /\ handleShowColumn(columnId)
    \/ \E o \in DOMAIN ops : GatewayWriteOther(o)
    \/ DeliverEvent

SpecHide == InitLoaded /\ [][NextHide]_vars

\* The cell edits the sheet issues: one value for each of the two seeded columns.
FieldEdits == {[field |-> "memo", value |-> "visit"], [field |-> "rank", value |-> "B"]}

\* Field edits of stored customers with the gateway serving their reads and
\* writes in any order and the change feed delivering the resulting events.
NextEdits ==
    \/ \E id \in Ids(customers), e \in FieldEdits :
          WritesLeft /\ handleUpdateCustomerData(id, e.field, e.value)
    \/ \E o \in DOMAIN ops : GatewayRead(o)
    \/ \E o \in DOMAIN ops : PreReadFailed(o)
    \/ \E o \in DOMAIN ops : PreReadDone(o)
    \/ \E o \in DOMAIN ops : GatewayWrite(o)
    \/ DeliverEvent

SpecEdits == InitLoaded /\ [][NextEdits]_vars

\* Customer deletes made through the sheet's two dialogs, next to creates, the
\* gateway serving the requests and the change feed.
NextConfirm ==
    \/ /\ WritesLeft
       /\ handleAddCustomer([name |-> DraftNames[Len(adds) + 1], data |-> DraftData])
    \/ \E i \in DOMAIN adds : GatewayInsert(i)
    \/ \E i \in DOMAIN adds : AddCustomerSuccess(i)
    \/ \E i \in DOMAIN adds : AddCustomerFail(i)
    \/ \E i \in DOMAIN adds : CustomerTimer(i)
    \/ \E id \in Ids(customers) : handleDeleteCustomerRequest(id)
    \/ showFinalDeleteConfirmation
    \/ WritesLeft /\ finalDeleteOnConfirm
    \/ confirmationOnCancel
    \/ \E o \in DOMAIN ops : DeleteCustomerContinue(o)
    \/ \E o \in DOMAIN ops : GatewayWrite(o)
    \/ DeliverEvent

SpecConfirm == InitLoaded /\ [][NextConfirm]_vars

\* Column drags while another session deletes columns: the change feed can take
\* the dragged column out of the store between drag start and drop.
NextDragFeed ==
    \/ \E columnId \in Ids(visibleColumns) : handleDragStart(columnId)
    \/ handleDragEnd
    \/ \E dropIndex \in 0..(Len(visibleColumns) - 1) :
          SheetOpsLeft /\ handleDrop(dropIndex)
    \/ \E columnId \in Ids(dbColumns) : peerDeleteColumn(columnId)
    \/ \E o \in DOMAIN ops : GatewayWriteOther(o)
    \/ DeliverEvent

SpecDragFeed == InitLoaded /\ [][NextDragFeed]_vars

\* A sheet with a currency column and a text column over one customer, whose
\* two cells hold any of the values the sheet itself stores: '' from the
\* create form or a number in the currency cell, a string in the text cell.
CellColumns ==
    <<[id |-> "budget", title |-> "Budget", type |-> "currency", options |-> <<>>,
       order |-> 0],
      [id |-> "note", title |-> "Note", type |-> "text", options |-> <<>>,
       order |-> 1]>>
StoredAmounts == {Str(""), Num(0), Num(1000)}
StoredNotes == {Str(""), Str("abc")}
TypedValues == {Str(""), Str("1000"), Str("1,000"), Str("01000"), Str("abc")}
CellCustomers(amount, note) ==
    <<[id |-> Num(1), name |-> "Seed", data |-> [budget |-> amount, note |-> note],
       created_at |-> "tz"]>>

InitCells ==
    \E amount \in StoredAmounts, note \in StoredNotes :
        /\ customers = [k \in {1} |-> normalize(CellCustomers(amount, note)[k])]
        /\ tasks = <<>>
        /\ pendingAdds = {}
        /\ pendingTaskAdds = {}
        /\ adds = <<>>
        /\ fetches = <<>>
        /\ nFetches = 1
        /\ ops = <<>>
        /\ nOps = 0
        /\ dbCustomers = CellCustomers(amount, note)
        /\ dbTasks = <<>>
        /\ dbSeq = [customers |-> 2, tasks |-> 1]
        /\ feed = <<>>
        /\ alerts = <<>>
        /\ last = [op |-> "FetchComplete"]
        /\ columns = CellColumns
        /\ employees = FetchedEmployees(InitialLoad.employeesData)
        /\ templateTasks = FetchedTemplateTasks(InitialLoad.templateTasksData)
        /\ hiddenColumns = NoHidden
        /\ dbColumns = CellColumns
        /\ dbSettings = SeedSettings
        /\ dbEmployees = SeedEmployees
        /\ dbTemplateTasks = SeedTemplateTasks
        /\ activeTab = "All"
        /\ draggingColumnId = NoDrag
        /\ contextMenu = <<>>
        /\ confirmationModal = NoData
        /\ editingCell = NoData

\* Cell edits next to the delete dialog, with the gateway serving the updates.
NextCells ==
    \/ \E id \in Ids(customers), field \in Ids(columns) : handleCellFocus(id, field)
    \/ \E newValue \in TypedValues : handleCellValueChange(newValue)
    \/ nOps < MaxOps /\ handleCellBlur
    \/ \E id \in Ids(customers) : handleDeleteCustomerRequest(id)
    \/ confirmationOnCancel
    \/ \E o \in DOMAIN ops : GatewayRead(o)
    \/ \E o \in DOMAIN ops : PreReadFailed(o)
    \/ \E o \in DOMAIN ops : PreReadDone(o)
    \/ \E o \in DOMAIN ops : GatewayWrite(o)
    \/ DeliverEvent

SpecCells == InitCells /\ [][NextCells]_vars

\* ============================================================= properties
StoreOf(kind) == IF kind = "customer" THEN customers ELSE tasks
PendingOf(kind) == IF kind = "customer" THEN pendingAdds ELSE pendingTaskAdds

\* The create i, once the gateway has stored its row.
Stored(i) == adds[i].pc \in {"ok", "timer", "released"}
ReturnedId(i) == String(adds[i].data.id)
ServerRecord(i) ==
    IF adds[i].kind = "customer" THEN normalize(adds[i].data)
    ELSE normalizeTask(adds[i].data)

\* The records of the store that stand for the entity created by create i:
\* those under its local or under its server identifier.
EntityRecords(i) ==
    SelectSeq(StoreOf(adds[i].kind),
              LAMBDA r : r.id \in {adds[i].newId, ReturnedId(i)})

SuccessStep(i) == adds[i].pc = "ok" /\ adds'[i].pc = "timer"
FailStep(i) == adds[i].pc = "err" /\ adds'[i].pc = "failed"

\* C1: when the success handler of a create whose returned identifier
\* differs from the local one has run, the store holds exactly one record
\* for the created entity: the server's record under the server identifier.
C1_OneRecordAfterSwap ==
    [][\A i \in DOMAIN adds :
          (SuccessStep(i) /\ ReturnedId(i) # adds[i].newId)
              => (EntityRecords(i) = <<ServerRecord(i)>>)']_vars

\* The create i has been sent and its reply has not been handled yet.
InFlight(i) == adds[i].pc \in {"insert", "ok", "err"}

\* C2: a refresh completing while X is pending, with a snapshot that does
\* not hold X, leaves the records stored under X as they were, in the
\* customer store and in the task store.
C2_RefreshRetainsPending ==
    [][last'.op = "FetchComplete" =>
          /\ \A X \in pendingAdds :
                ~Some(FetchedCustomers(last'.reply.customersData), X)
                    => WithId(customers', X) = WithId(customers, X)
          /\ \A X \in pendingTaskAdds :
                ~Some(FetchedTasks(last'.reply.tasksData), X)
                    => WithId(tasks', X) = WithId(tasks, X)]_vars

\* Both refreshes have completed, the last one while the create was in
\* flight, and the optimistic record is still in the store and pending.
C2_Witness ==
    /\ last.op = "FetchComplete"
    /\ nFetches = 2 /\ fetches = <<>>
    /\ \E i \in DOMAIN adds :
          /\ InFlight(i)
          /\ adds[i].newId \in PendingOf(adds[i].kind)
          /\ WithId(StoreOf(adds[i].kind), adds[i].newId) # <<>>

\* C3: once the failure handler of a create has run, no record is stored
\* under its local identifier and the identifier is not pending.
C3_RollbackComplete ==
    \A i \in DOMAIN adds :
        adds[i].pc = "failed" =>
            /\ ~Some(StoreOf(adds[i].kind), adds[i].newId)
            /\ adds[i].newId \notin PendingOf(adds[i].kind)

\* A create has just been rolled back, after a refresh completed and an
\* alert was raised.
C3_Witness ==
    /\ last.op \in {"AddCustomerFail", "AddTaskFail"}
    /\ nFetches > Len(fetches)
    /\ alerts # <<>>
    /\ \E i \in DOMAIN adds : adds[i].pc = "failed"

\* C5: a customer INSERT event whose normalized identifier is in the
\* customer store leaves the store as it is; otherwise exactly one record,
\* carrying that identifier, is appended.
C5_CustomerInsertEvent ==
    [][(/\ last'.op = "DeliverEvent"
        /\ last'.payload.table = "customers"
        /\ last'.payload.eventType = "INSERT")
          => LET newId == String(last'.payload.new.id)
             IN IF Some(customers, newId)
                THEN customers' = customers
                ELSE /\ Len(customers') = Len(customers) + 1
                     /\ SubSeq(customers', 1, Len(customers)) = customers
                     /\ customers'[Len(customers')].id = newId]_vars

\* An INSERT event was just ignored: its identifier is in the store, and
\* not in the last slot where an append would have put it.
C5_Witness ==
    /\ last.op = "DeliverEvent"
    /\ last.payload.table = "customers"
    /\ last.payload.eventType = "INSERT"
    /\ Some(customers, String(last.payload.new.id))
    /\ customers[Len(customers)].id # String(last.payload.new.id)

FetchedOf(kind, reply) ==
    IF kind = "customer" THEN FetchedCustomers(reply.customersData)
    ELSE FetchedTasks(reply.tasksData)

\* C4: after a refresh whose snapshot holds the server record of a created
\* entity, the store holds for that entity the fetched record and nothing
\* else; and an identifier both fetched and stored is kept as fetched.
C4_RefreshShowsFetchedVersion ==
    [][last'.op = "FetchComplete" =>
          /\ \A i \in DOMAIN adds :
                (Stored(i) /\ Some(FetchedOf(adds[i].kind, last'.reply), ReturnedId(i)))
                    => EntityRecords(i)' =
                          WithId(FetchedOf(adds[i].kind, last'.reply), ReturnedId(i))
          /\ \A id \in Ids(customers) \cap Ids(FetchedOf("customer", last'.reply)) :
                WithId(customers', id) = WithId(FetchedOf("customer", last'.reply), id)
          /\ \A id \in Ids(tasks) \cap Ids(FetchedOf("task", last'.reply)) :
                WithId(tasks', id) = WithId(FetchedOf("task", last'.reply), id)]_vars

\* C6: a task INSERT event whose normalized identifier is in the task store
\* leaves at most one record under that identifier.
C6_TaskInsertEventNoDuplicate ==
    [][(/\ last'.op = "DeliverEvent"
        /\ last'.payload.table = "tasks"
        /\ last'.payload.eventType = "INSERT"
        /\ Some(tasks, String(last'.payload.new.id)))
          => Len(WithId(tasks', String(last'.payload.new.id))) <= 1]_vars

\* The events the feed can carry about the rows of a table, and the result
\* of a refresh that reads the tables as they are.
RowEvents(tableName, table, types) ==
    {Event(tableName, type, table[k], [id |-> table[k].id]) :
        type \in types, k \in DOMAIN table}
SameFor(id, s1, s2) == WithId(s1, id) = WithId(s2, id)

\* Idempotence and order-insensitivity of one store: h is its change-feed
\* handler, Fetched and Merge its refresh merge.
Convergent(store, pending, tableName, table, h(_, _), Fetched(_), Merge(_, _, _)) ==
    LET reply == SelectReply(table, FALSE)
        once == Merge(store, pending, reply)
        left == ClearConfirmed(pending, Fetched(reply))
        ids == Ids(store) \cup Ids(Fetched(reply))
    IN /\ \A e \in RowEvents(tableName, table, {"INSERT", "UPDATE", "DELETE"}) :
            \A id \in ids : SameFor(id, h(h(store, e), e), h(store, e))
       /\ \A id \in ids : SameFor(id, Merge(once, left, reply), once)
       /\ \A e \in RowEvents(tableName, table, {"INSERT", "UPDATE"}) :
            LET id == String(e.new.id)
            IN /\ SameFor(id, Merge(h(store, e), pending, reply), once)
               /\ SameFor(id, h(once, e), once)

\* C7: in every reachable store, delivering an event twice, merging a
\* refresh result twice, or delivering an event and merging a refresh
\* result that carry the same record in either order, leaves under each
\* identifier what one application leaves.
C7_IdempotentAndOrderInsensitive ==
    /\ Convergent(customers, pendingAdds, "customers", dbCustomers,
                  handleCustomerChange, FetchedCustomers, MergeCustomers)
    /\ Convergent(tasks, pendingTaskAdds, "tasks", dbTasks,
                  handleTaskChange, FetchedTasks, MergeTasks)

\* The customer half of C7 alone.
C7_CustomersConvergent ==
    Convergent(customers, pendingAdds, "customers", dbCustomers,
               handleCustomerChange, FetchedCustomers, MergeCustomers)

TimerStep(i) == adds[i].pc = "timer" /\ adds'[i].pc = "released"

\* How the pending set of one kind may change in a step, as C8 states it:
\* an identifier enters with its optimistic insertion (add names the
\* handler), and leaves by a refresh that fetched it, by the grace timer of
\* its create, or by the failure of its create.
PendingChange(kind, add) ==
    /\ \A id \in PendingOf(kind)' \ PendingOf(kind) :
          /\ last'.op = add
          /\ ~Some(StoreOf(kind), id) /\ Some(StoreOf(kind)', id)
    /\ last'.op = add =>
          StoreOf(kind)'[Len(StoreOf(kind)')].id \in PendingOf(kind)' \ PendingOf(kind)

Leaves(kind, id) ==
    \/ last'.op = "FetchComplete" /\ Some(FetchedOf(kind, last'.reply), id)
    \/ \E i \in DOMAIN adds :
          /\ adds[i].kind = kind
          /\ TimerStep(i)
          /\ id \in {adds[i].newId, ReturnedId(i)}
    \/ \E i \in DOMAIN adds :
          adds[i].kind = kind /\ FailStep(i) /\ id = adds[i].newId

\* The success handler exchanging the local identifier for the returned one.
SwapsIn(kind, id) ==
    \E i \in DOMAIN adds :
        /\ adds[i].kind = kind /\ SuccessStep(i)
        /\ ReturnedId(i) # adds[i].newId /\ id = ReturnedId(i)
SwapsOut(kind, id) ==
    \E i \in DOMAIN adds :
        /\ adds[i].kind = kind /\ SuccessStep(i)
        /\ ReturnedId(i) # adds[i].newId /\ id = adds[i].newId

\* C8: an identifier enters a pending set with its optimistic insertion and
\* leaves it only by (a) a refresh that fetched it, (b) the grace timer,
\* (c) the failed write; no other step changes a pending set.
C8_PendingSetSteps ==
    [][\A kind \in {"customer", "task"} :
          LET add == IF kind = "customer" THEN "handleAddCustomer" ELSE "handleAddTask"
          IN /\ PendingChange(kind, add)
             /\ \A id \in PendingOf(kind) \ PendingOf(kind)' : Leaves(kind, id)]_vars

\* C8 as amended: besides those steps, the success handler of a create
\* whose returned identifier differs from the local one puts the returned
\* identifier into the pending set and takes the local one out.
C8_PendingSetStepsWithSwap ==
    [][\A kind \in {"customer", "task"} :
          LET add == IF kind = "customer" THEN "handleAddCustomer" ELSE "handleAddTask"
          IN /\ \A id \in PendingOf(kind)' \ PendingOf(kind) :
                   \/ /\ last'.op = add
                      /\ ~Some(StoreOf(kind), id) /\ Some(StoreOf(kind)', id)
                   \/ SwapsIn(kind, id)
             /\ last'.op = add =>
                   StoreOf(kind)'[Len(StoreOf(kind)')].id
                       \in PendingOf(kind)' \ PendingOf(kind)
             /\ \A id \in PendingOf(kind) \ PendingOf(kind)' :
                   Leaves(kind, id) \/ SwapsOut(kind, id)]_vars

\* A success handler has just exchanged the identifiers in a pending set.
C8_Witness ==
    /\ last.op \in {"AddCustomerSuccess", "AddTaskSuccess"}
    /\ \E i \in DOMAIN adds :
          /\ adds[i].pc = "timer"
          /\ ReturnedId(i) \in PendingOf(adds[i].kind)
          /\ adds[i].newId \notin PendingOf(adds[i].kind)

\* C9: from the success handler until the grace timer fires the returned
\* identifier is pending, and a refresh completing in between whose
\* snapshot lacks it leaves the swapped record in the store.
C9_ProtectedUntilTimer ==
    [][\A i \in DOMAIN adds :
          LET kind == adds[i].kind
              id == ReturnedId(i)
          IN /\ (adds'[i].pc = "timer" /\ id # adds[i].newId)
                    => id \in PendingOf(kind)'
             /\ (/\ adds[i].pc = "timer"
                 /\ last'.op = "FetchComplete"
                 /\ ~Some(FetchedOf(kind, last'.reply), id))
                    => SameFor(id, StoreOf(kind)', StoreOf(kind))]_vars

\* What the code does give in the case of C9: the returned identifier is
\* pending when the success handler has run and, until the grace timer
\* fires, leaves the pending set only by a refresh that fetched it; a
\* refresh completing while it is pending whose snapshot lacks it leaves the
\* swapped record in the store and the identifier pending.
ProtectedWhilePending ==
    [][\A i \in DOMAIN adds :
          LET kind == adds[i].kind
              id == ReturnedId(i)
          IN /\ (SuccessStep(i) /\ id # adds[i].newId) => id \in PendingOf(kind)'
             /\ (/\ adds[i].pc = "timer" /\ adds'[i].pc = "timer"
                 /\ id \in PendingOf(kind) /\ id \notin PendingOf(kind)')
                    => /\ last'.op = "FetchComplete"
                       /\ Some(FetchedOf(kind, last'.reply), id)
             /\ (/\ adds[i].pc = "timer"
                 /\ id \in PendingOf(kind)
                 /\ last'.op = "FetchComplete"
                 /\ ~Some(FetchedOf(kind, last'.reply), id))
                    => /\ SameFor(id, StoreOf(kind)', StoreOf(kind))
                       /\ id \in PendingOf(kind)']_vars

Keeps(storeAfter, storeBefore) ==
    \A k \in DOMAIN storeBefore :
        \E j \in DOMAIN storeAfter : storeAfter[j] = storeBefore[k]

\* C10: a refresh whose read of a collection failed removes no record of
\* that collection from the store.
C10_FailedReadKeepsStore ==
    [][last'.op = "FetchComplete" =>
          /\ last'.reply.customersData.error => Keeps(customers', customers)
          /\ last'.reply.tasksData.error => Keeps(tasks', tasks)]_vars

\* The tasks of the store that reference customer id.
TasksOf(id) == SelectSeq(tasks, LAMBDA t : t.customerId = id)

\* C11: when handleDeleteCustomer has applied its local mutation, the
\* deleted customer is not in the customer store and no task whose
\* customerId is the deleted customer's identifier is in the task store.
C11_DeleteCascadesLocally ==
    last.op = "handleDeleteCustomer" =>
        /\ ~Some(customers, last.id)
        /\ TasksOf(last.id) = <<>>

\* The stores cs (customers) and ts (tasks) show the local mutation of the
\* update or delete o.
ReflectsOp(o, cs, ts) ==
    CASE o.kind = "deleteCustomer" -> ~Some(cs, o.id)
      [] o.kind = "deleteTask" -> ~Some(ts, o.id)
      [] o.kind = "updateTask" ->
            /\ Some(ts, o.id)
            /\ \A k \in DOMAIN ts :
                  ts[k].id = o.id => Spread(ts[k], o.fields) = ts[k]
      [] o.kind \in {"updateCustomer", "updateCustomerData"} ->
            /\ Some(cs, o.id)
            /\ \A k \in DOMAIN cs :
                  cs[k].id = o.id =>
                     /\ \A f \in DOMAIN o.fields \ {"data"} : cs[k][f] = o.fields[f]
                     /\ HasData(o.fields) =>
                           Spread(cs[k].data, o.fields.data) = cs[k].data

\* C12: the step in which a create, update or delete handler sends its
\* first remote request is a step after which the store shows the action's
\* local mutation: the optimistic record is stored under the local
\* identifier, the deleted record is gone, the updated record carries the
\* new field values.  Requests come from the handlers' request records only,
\* so no remote write is sent before its action's mutation is applied.
C12_LocalBeforeRemote ==
    [][/\ Len(adds') > Len(adds) =>
             LET a == adds'[Len(adds')]
             IN /\ a.pc = "insert"
                /\ Some(IF a.kind = "customer" THEN customers' ELSE tasks', a.newId)
       /\ nOps' > nOps =>
             /\ Len(ops') = Len(ops) + 1
             /\ ReflectsOp(ops'[Len(ops')], customers', tasks')
       /\ \A i \in DOMAIN adds : i \in DOMAIN adds'
       /\ Len(ops') > Len(ops) => nOps' > nOps]_vars

\* A create and a task delete are both awaiting the gateway: the optimistic
\* record is in the store, the deleted task is gone from the store and
\* still in the remote table.
C12_Witness ==
    /\ \E i \in DOMAIN adds :
          adds[i].pc = "insert" /\ Some(StoreOf(adds[i].kind), adds[i].newId)
    /\ \E o \in DOMAIN ops :
          /\ ops[o].kind = "deleteTask" /\ ops[o].pc = "delete"
          /\ ~Some(tasks, ops[o].id)
          /\ Some(FetchedTasks(SelectReply(dbTasks, FALSE)), ops[o].id)

\* The reply to the last request of an update or delete reports a failure,
\* or the pre-read of an update of custom fields has failed.
WriteFailed ==
    \/ last'.op = "GatewayWrite" /\ ~last'.ok
    \/ last'.op = "PreReadFailed"

\* C13: the step in which the remote write of an update or delete, or the
\* pre-read of a customer's data, is found to have failed changes neither
\* store and raises no alert; when the pre-read fails the handler ends
\* without sending the update.
C13_NoRollbackOnFailedWrite ==
    [][WriteFailed =>
          /\ customers' = customers
          /\ tasks' = tasks
          /\ alerts' = alerts
          /\ <<dbCustomers', dbTasks', feed'>> = <<dbCustomers, dbTasks, feed>>
          /\ last'.op = "PreReadFailed" => Len(ops') = Len(ops) - 1]_vars

\* The pre-read of an update of custom fields has just failed: the handler
\* is over, the store still carries the edited value, the remote table
\* never received it, and no alert was raised.
C13_Witness ==
    /\ last.op = "PreReadFailed"
    /\ ops = <<>>
    /\ alerts = <<>>
    /\ \E k \in DOMAIN customers :
          /\ customers[k].id = last.request.id
          /\ customers[k].data.memo = last.request.fields.data.memo
    /\ \A k \in DOMAIN dbCustomers :
          dbCustomers[k].data.memo # last.request.fields.data.memo

\* The text ends with the message.
EndsWith(text, message) ==
    /\ Len(text) >= Len(message)
    /\ SubSeq(text, Len(text) - Len(message) + 1, Len(text)) = message

\* The store after the step is the store before it less one record, the
\* one at some position k, which was stored under id.
DropsOne(after, before, id) ==
    \E k \in DOMAIN before :
        /\ before[k].id = id
        /\ after = Remove(before, k)

PendingIdsOf(i) ==
    {adds[i].newId} \cup (IF Stored(i) /\ adds[i].pc # "ok" THEN {ReturnedId(i)} ELSE {})

\* None of them is pending.
Released(i) == PendingIdsOf(i) \cap PendingOf(adds[i].kind) = {}

\* C15: a create whose insert succeeded has its grace timer set by the
\* success handler and the timer fires; once it has fired neither the
\* local nor the returned identifier is pending, whether or not a refresh
\* fetched them; and every create whose reply has been handled, successful
\* or failed, eventually has none of its identifiers pending.
C15_GuardReleased ==
    /\ [](\A i \in DOMAIN adds : adds[i].pc = "released" => Released(i))
    /\ \A i \in 1..MaxAdds :
          (i \in DOMAIN adds /\ adds[i].pc = "ok")
              ~> (i \in DOMAIN adds /\ adds[i].pc = "released" /\ Released(i))
    /\ \A i \in 1..MaxAdds :
          (i \in DOMAIN adds /\ adds[i].pc \in {"timer", "failed"})
              ~> (i \in DOMAIN adds /\ Released(i))

\* The grace timer of a create has fired although no refresh was ever
\* started: the swapped record is in the store and nothing is pending.
C15_Witness ==
    /\ nFetches = 0
    /\ pendingAdds = {} /\ pendingTaskAdds = {}
    /\ \E i \in DOMAIN adds :
          /\ adds[i].pc = "released"
          /\ ReturnedId(i) # adds[i].newId
          /\ Some(StoreOf(adds[i].kind), ReturnedId(i))

\* No request is in flight, every grace timer has fired and every
\* change-feed event has been delivered.
Quiescent ==
    /\ \A i \in DOMAIN adds : adds[i].pc \in {"released", "failed"}
    /\ ops = <<>>
    /\ fetches = <<>>
    /\ feed = <<>>

\* Each identifier of s is the identifier of one record of s.
EachOnce(s) == \A j, k \in DOMAIN s : s[j].id = s[k].id => j = k

\* What a refresh reads when its reads succeed on the tables as they are.
CurrentRead == Replies({})

\* C16: in a quiescent state, the refresh that reads the tables as they
\* are leaves the customer store and the task store equal to the fetched
\* lists, with each identifier once.
C16_PathsConverge ==
    Quiescent =>
        LET cs == MergeCustomers(customers, pendingAdds, CurrentRead.customersData)
            ts == MergeTasks(tasks, pendingTaskAdds, CurrentRead.tasksData)
        IN /\ cs = FetchedCustomers(CurrentRead.customersData)
           /\ ts = FetchedTasks(CurrentRead.tasksData)
           /\ EachOnce(cs) /\ EachOnce(ts)

\* A create has succeeded, its event was delivered and its timer fired;
\* then a refresh read the tables and completed: the stores are the fetched
\* lists, the created record among them.
C16_Witness ==
    /\ Quiescent
    /\ last.op = "FetchComplete"
    /\ last.reply = CurrentRead
    /\ \E i \in DOMAIN adds :
          adds[i].pc = "released" /\ Some(StoreOf(adds[i].kind), ReturnedId(i))
    /\ customers = FetchedCustomers(CurrentRead.customersData)
    /\ tasks = FetchedTasks(CurrentRead.tasksData)

\* The step delivers an event of the given type about the given table.
Delivers(tableName, type) ==
    /\ last'.op = "DeliverEvent"
    /\ last'.payload.table = tableName
    /\ last'.payload.eventType = type

\* after is before with every record stored under id replaced, where it
\* stands, by record; without such a record the two are equal.
ReplacedInPlace(after, before, id, record) ==
    /\ Len(after) = Len(before)
    /\ \A k \in DOMAIN before :
          after[k] = IF before[k].id = id THEN record ELSE before[k]
    /\ ~Some(before, id) => after = before /\ ~Some(after, id)

\* C17: an UPDATE event puts the event's row, identifiers normalized, in
\* the place of the record stored under its identifier and changes no other
\* record, position or store; with no such record the store is unchanged.
C17_UpdateEventInPlace ==
    [][/\ Delivers("customers", "UPDATE") =>
             /\ ReplacedInPlace(customers', customers, String(last'.payload.new.id),
                                [last'.payload.new EXCEPT !.id = String(@)])
             /\ tasks' = tasks
       /\ Delivers("tasks", "UPDATE") =>
             /\ ReplacedInPlace(tasks', tasks, String(last'.payload.new.id),
                                [last'.payload.new EXCEPT
                                    !.id = String(@), !.customerId = String(@)])
             /\ customers' = customers]_vars

\* An UPDATE event about the second of two stored tasks was just
\* delivered, after a refresh that had read the row before its update: the
\* second record carries the row's new title, the first is as fetched.
C17_Witness ==
    /\ last.op = "DeliverEvent"
    /\ last.payload.table = "tasks"
    /\ last.payload.eventType = "UPDATE"
    /\ nFetches = 2 /\ fetches = <<>>
    /\ Len(tasks) = 2
    /\ tasks[2] = normalizeTask(last.payload.new)
    /\ tasks[2].title = "revised"
    /\ tasks[1] = normalizeTask(SeedTasks[1])

\* C18: a DELETE event takes the records stored under its identifier out
\* of the store of its table and leaves the others, in their order, and the
\* other store as they were; with no such record the store is unchanged.
C18_DeleteEventRemovesMatch ==
    [][/\ Delivers("customers", "DELETE") =>
             LET id == String(last'.payload.old.id)
             IN /\ customers' = SelectSeq(customers, LAMBDA c : c.id # id)
                /\ ~Some(customers, id) => customers' = customers
                /\ tasks' = tasks
       /\ Delivers("tasks", "DELETE") =>
             LET id == String(last'.payload.old.id)
             IN /\ tasks' = SelectSeq(tasks, LAMBDA t : t.id # id)
                /\ ~Some(tasks, id) => tasks' = tasks
                /\ customers' = customers]_vars

\* The DELETE event about the first task of a deleted customer was just
\* delivered: the task store, which the customer's deletion had left alone,
\* now holds the second task only.
C18_Witness ==
    /\ last.op = "DeliverEvent"
    /\ last.payload.table = "tasks"
    /\ last.payload.eventType = "DELETE"
    /\ String(last.payload.old.id) = String(SeedTasks[1].id)
    /\ tasks = <<normalizeTask(SeedTasks[2])>>
    /\ Len(feed) = 1

\* C20: the success handler of a create whose returned identifier differs
\* from the local one leaves the store as long as it was, puts the gateway's
\* row under the returned identifier where the record under the local
\* identifier stood, leaves every other record where and as it was, and
\* changes nothing when no record is stored under the local identifier;
\* the other store is untouched.
C20_SwapKeepsSlot ==
    [][\A i \in DOMAIN adds :
          (SuccessStep(i) /\ ReturnedId(i) # adds[i].newId) =>
             LET before == StoreOf(adds[i].kind)
                 after == StoreOf(adds[i].kind)'
             IN /\ Len(after) = Len(before)
                /\ \A k \in DOMAIN before :
                      IF before[k].id = adds[i].newId
                      THEN /\ after[k].id = ReturnedId(i)
                           /\ after[k] = ServerRecord(i)
                      ELSE after[k] = before[k]
                /\ ~Some(before, adds[i].newId) => after = before
                /\ adds[i].kind = "customer" => tasks' = tasks
                /\ adds[i].kind = "task" => customers' = customers]_vars

\* A customer's success handler has just swapped the identifiers of the
\* second of three records: the first is the seeded customer, the third the
\* record the change feed had appended before the reply was handled.
C20_Witness ==
    /\ last.op = "AddCustomerSuccess"
    /\ Len(customers) = 3
    /\ customers[1] = normalize(SeedCustomers[1])
    /\ \E i \in DOMAIN adds :
          /\ adds[i].kind = "customer" /\ adds[i].pc = "timer"
          /\ customers[2] = ServerRecord(i)
          /\ ~Some(customers, adds[i].newId)

\* The rows with their identifiers in string form.
WithStringIds(rows) == [k \in DOMAIN rows |-> [rows[k] EXCEPT !.id = String(@)]]

\* The rows a read returned; none when it failed.
RowsRead(reply) == IF reply.error THEN <<>> ELSE reply.data

\* C19: after a refresh the column store is the list of rows its read
\* returned, the employee and template-task stores are the rows read with
\* their identifiers in string form, and the hidden-column setting is the
\* one read (empty when the read failed), whatever the stores held before:
\* nothing of the previous stores, locally added columns included, is kept.
C19_RefreshReplacesOtherStores ==
    [][last'.op = "FetchComplete" =>
          /\ columns' = RowsRead(last'.reply.columnsData)
          /\ employees' = WithStringIds(RowsRead(last'.reply.employeesData))
          /\ templateTasks' = WithStringIds(RowsRead(last'.reply.templateTasksData))
          /\ hiddenColumns' = IF last'.reply.settingsData.error THEN NoHidden
                              ELSE last'.reply.settingsData.data.hiddenColumns]_vars

\* A refresh has just completed while the insert of a locally added column
\* is still on its way to the gateway: the column store is the fetched
\* list, without the added column.
C19_Witness ==
    /\ last.op = "FetchComplete"
    /\ ~last.reply.columnsData.error
    /\ columns = last.reply.columnsData.data
    /\ employees # <<>>
    /\ \E o \in DOMAIN ops :
          /\ ops[o].pc = "insertColumn"
          /\ ~Some(columns, ops[o].column.id)
          /\ ~Some(dbColumns, ops[o].column.id)

\* The number of customer deletes for customerId that stand at position pc.
DeletesAt(requests, customerId, pc) ==
    Cardinality({k \in DOMAIN requests :
                    /\ requests[k].kind = "deleteCustomer"
                    /\ requests[k].id = customerId
                    /\ requests[k].pc = pc})

\* C21: the delete of a customer is sent only by a handler whose delete of
\* that customer's tasks has been sent and answered: a customer delete
\* request appears only in exchange for an answered task delete of the same
\* customer, and an answered task delete only when the gateway has just
\* served the task delete request for that customer.
C21_TaskDeleteSentFirst ==
    [][\A k \in DOMAIN ops' :
          LET id == ops'[k].id
          IN /\ DeletesAt(ops', id, "deleteCustomer") > DeletesAt(ops, id, "deleteCustomer")
                  => DeletesAt(ops', id, "tasksReplied") < DeletesAt(ops, id, "tasksReplied")
             /\ DeletesAt(ops', id, "tasksReplied") > DeletesAt(ops, id, "tasksReplied")
                  => /\ DeletesAt(ops', id, "deleteTasks") < DeletesAt(ops, id, "deleteTasks")
                     /\ last'.op = "GatewayWrite"
                     /\ last'.request.pc = "deleteTasks"
                     /\ last'.request.id = id]_vars

\* The gateway has served the delete of a customer, after the delete of the
\* customer's tasks: neither the customer nor any of its tasks is left in
\* the tables.
C21_Witness ==
    /\ last.op = "GatewayWrite"
    /\ last.ok
    /\ last.request.pc = "deleteCustomer"
    /\ RowsEq(dbCustomers, "id", last.request.id) = <<>>
    /\ RowsEq(dbTasks, "customerId", last.request.id) = <<>>

\* C22: the firing of a grace timer changes the pending set of its kind
\* and nothing else of the application: the customer store, the task store
\* and the alerts stay as they were.  A timer is set only by the success
\* handler, so none fires while its create is unanswered; and as long as the
\* reply of a create has not been handled, the optimistic record leaves the
\* store only by the failure handler of that create (the success handler
\* puts the server's record in its place).
C22_TimerIsCleanupOnly ==
    [][\A i \in DOMAIN adds :
          /\ TimerStep(i) =>
                /\ customers' = customers
                /\ tasks' = tasks
                /\ alerts' = alerts
                /\ PendingOf(adds[i].kind)' \subseteq PendingOf(adds[i].kind)
                /\ adds[i].kind = "customer" => pendingTaskAdds' = pendingTaskAdds
                /\ adds[i].kind = "task" => pendingAdds' = pendingAdds
          /\ ~Stored(i) => adds'[i].pc # "released"
          /\ ( /\ InFlight(i)
               /\ Some(StoreOf(adds[i].kind), adds[i].newId)
               /\ ~Some(IF adds[i].kind = "customer" THEN customers' ELSE tasks',
                        adds[i].newId) )
                => \/ FailStep(i)
                   \/ /\ SuccessStep(i)
                      /\ Some(IF adds[i].kind = "customer" THEN customers' ELSE tasks',
                              ReturnedId(i))]_vars

\* The grace timer of a task create has just fired: the identifiers of the
\* create are no longer pending and the created task is still in the store.
C22_Witness ==
    /\ last.op = "TaskTimer"
    /\ \E i \in DOMAIN adds :
          /\ adds[i].kind = "task"
          /\ adds[i].pc = "released"
          /\ Released(i)
          /\ Some(tasks, ReturnedId(i))

\* C23: when the deletion of a column has been confirmed, no customer of the
\* store holds a value under the identifier of the deleted column.
C23_DeleteColumnClearsData ==
    [][last'.op = "handleDeleteColumn" =>
          \A k \in DOMAIN customers' :
             last'.id \in DOMAIN customers'[k].data
                => customers'[k].data[last'.id] = ""]_vars

\* C24: handleDeleteOption(column, option) leaves the column without the
\* option among its options and the other columns as they were; every
\* customer whose value for the column was the option has the empty value
\* there and is otherwise as before, and every other customer is unchanged.
C24_DeleteOptionClears ==
    [][last'.op = "handleDeleteOption" =>
          LET columnId == last'.columnId
              option == last'.option
          IN /\ DOMAIN columns' = DOMAIN columns
             /\ \A k \in DOMAIN columns :
                   IF columns[k].id = columnId
                   THEN /\ \A j \in DOMAIN columns'[k].options :
                              columns'[k].options[j] # option
                        /\ columns'[k].options =
                              SelectSeq(columns[k].options, LAMBDA opt : opt # option)
                        /\ [columns'[k] EXCEPT !.options = <<>>] =
                              [columns[k] EXCEPT !.options = <<>>]
                   ELSE columns'[k] = columns[k]
             /\ DOMAIN customers' = DOMAIN customers
             /\ \A k \in DOMAIN customers :
                   IF /\ columnId \in DOMAIN customers[k].data
                      /\ customers[k].data[columnId] = option
                   THEN customers'[k] =
                           [customers[k] EXCEPT !.data[columnId] = ""]
                   ELSE customers'[k] = customers[k]]_vars

\* An option in use has just been deleted: the column no longer offers it
\* and the customer that used it has the empty value.
C24_Witness ==
    /\ last.op = "handleDeleteOption"
    /\ last.users > 0
    /\ \E k \in DOMAIN customers : customers[k].data[last.columnId] = ""
    /\ \E k \in DOMAIN columns :
          /\ columns[k].id = last.columnId
          /\ columns[k].options # <<>>

\* C25: the insert payload a create handler hands to the gateway has no id
\* field and has every other field of the optimistic record the handler put
\* in the store, with the same value.
C25_PayloadWithoutId ==
    [][Len(adds') = Len(adds) + 1 =>
          LET a == adds'[Len(adds')]
              store == IF a.kind = "customer" THEN customers' ELSE tasks'
              record == store[Len(store)]
          IN /\ record.id = a.newId
             /\ "id" \notin DOMAIN a.payload
             /\ DOMAIN a.payload = DOMAIN record \ {"id"}
             /\ \A field \in DOMAIN a.payload : a.payload[field] = record[field]]_vars

\* A create has been called and its insert is on its way: the optimistic
\* record is stored under the local identifier and the payload has no id.
C25_Witness ==
    \E i \in DOMAIN adds :
       /\ adds[i].pc = "insert"
       /\ Some(StoreOf(adds[i].kind), adds[i].newId)
       /\ "id" \notin DOMAIN adds[i].payload
       /\ "created_at" \in DOMAIN adds[i].payload

\* The identifiers of the records of a store.
AllStrings(store) == \A k \in DOMAIN store : IsStr(store[k].id)

\* C26: in every reachable state the identifier of every record of the
\* customer, task, employee and template-task stores is a string, and so is
\* the customerId of every task.
C26_IdentifiersAreStrings ==
    /\ AllStrings(customers)
    /\ AllStrings(tasks)
    /\ AllStrings(employees)
    /\ AllStrings(templateTasks)
    /\ \A k \in DOMAIN tasks : IsStr(tasks[k].customerId)

\* The change feed has just delivered an event of the employees table whose
\* row carries a numeric identifier, and the store holds the employee under
\* the string form of it.
C26_Witness ==
    /\ last.op = "DeliverEvent"
    /\ last.payload.table = "employees"
    /\ ~IsStr(last.payload.new.id)
    /\ Some(employees, String(last.payload.new.id))
    /\ \E k \in DOMAIN tasks : ~IsStr(dbTasks[1].id) /\ tasks[k].id = String(dbTasks[1].id)

\* The order values of the columns, one per column.
Orders(cols) == {cols[k].order : k \in DOMAIN cols}

\* C27: a drop at index d leaves the list of columns with every field but
\* order as it was, makes the order values the numbers 0..n-1, one per
\* column, gives the dragged column the order d, and keeps the other
\* columns in the order they were shown in.
C27_DropReorders ==
    [][last'.op = "handleDrop" =>
          LET n == Len(columns)
              others == {k \in DOMAIN columns : columns[k].id # last'.dragged}
          IN /\ DOMAIN columns' = DOMAIN columns
             /\ \A k \in DOMAIN columns :
                   [columns'[k] EXCEPT !.order = 0] = [columns[k] EXCEPT !.order = 0]
             /\ Orders(columns') = 0..(n - 1)
             /\ Cardinality(Orders(columns')) = n
             /\ \A k \in DOMAIN columns :
                   columns[k].id = last'.dragged
                      => columns'[k].order = last'.dropIndex
             /\ \A j, k \in others :
                   SortPosition(columns, j) < SortPosition(columns, k)
                      => columns'[j].order < columns'[k].order]_vars

\* The same for a drop made while no two columns of the store share an
\* identifier and the dragged column is in the store.
DropReordersDistinct ==
    [][( /\ last'.op = "handleDrop"
         /\ Some(columns, last'.dragged)
         /\ \A j, k \in DOMAIN columns : columns[j].id = columns[k].id => j = k )
          => LET n == Len(columns)
                 others == {k \in DOMAIN columns : columns[k].id # last'.dragged}
             IN /\ DOMAIN columns' = DOMAIN columns
                /\ \A k \in DOMAIN columns :
                      [columns'[k] EXCEPT !.order = 0] = [columns[k] EXCEPT !.order = 0]
                /\ Orders(columns') = 0..(n - 1)
                /\ \A k \in DOMAIN columns :
                      columns[k].id = last'.dragged
                         => columns'[k].order = last'.dropIndex
                /\ \A j, k \in others :
                      SortPosition(columns, j) < SortPosition(columns, k)
                         => columns'[j].order < columns'[k].order]_vars

\* The data map after carries the keys given with the values given and
\* every other key of the map before with its value.
MergedInto(after, before, given) ==
    /\ DOMAIN after = DOMAIN before \cup DOMAIN given
    /\ \A key \in DOMAIN given : after[key] = given[key]
    /\ \A key \in DOMAIN before \ DOMAIN given : after[key] = before[key]

C29_OfflineDeleteCascades ==
    [][last'.op = "handleDeleteCustomerOffline" =>
          LET X == last'.id
          IN /\ ~Some(customers', X)
             /\ \A k \in DOMAIN tasks' : tasks'[k].customerId # X
             /\ customers' = SelectSeq(customers, LAMBDA c : c.id # X)
             /\ tasks' = SelectSeq(tasks, LAMBDA t : t.customerId # X)]_vars

\* A customer that had tasks has just been deleted while another customer
\* with a task is in the store: the other customer and its task are there.
C29_Witness ==
    /\ last.op = "handleDeleteCustomerOffline"
    /\ last.id = Str("1")
    /\ Some(customers, Str("2"))
    /\ Len(tasks) = 1
    /\ tasks[1].customerId = Str("2")

\* The hidden lists of every tab but the given one are the same before and
\* after the step.
OtherTabsKept(tab) ==
    \A t \in StatusTabs \ {tab} :
        HiddenList(hiddenColumns', t) = HiddenList(hiddenColumns, t)

\* C30: column hiding is per status tab and reversible.  Hiding or showing a
\* column while the "All" tab is active changes no hidden list; on a status tab
\* hiding appends the column to that tab's list and leaves every other tab's
\* list alone; showing the column that was just hidden gives back the list the
\* tab had before the hide (an absent list read as empty); and under the "All"
\* tab every column is visible whatever the hidden lists hold.
C30_HidingPerTabReversible ==
    [][ /\ (last'.op \in {"handleHideColumn", "handleShowColumn"} /\ last'.tab = "All")
            => hiddenColumns' = hiddenColumns
        /\ (last'.op = "handleHideColumn" /\ last'.tab # "All")
            => /\ HiddenList(hiddenColumns', last'.tab)
                    = Append(HiddenList(hiddenColumns, last'.tab), last'.columnId)
               /\ OtherTabsKept(last'.tab)
               /\ HiddenList(ShowColumn(hiddenColumns', last'.tab, last'.columnId),
                             last'.tab)
                    = HiddenList(hiddenColumns, last'.tab)
        /\ (last'.op = "handleShowColumn" /\ last'.tab # "All")
            => OtherTabsKept(last'.tab)
        /\ activeTab' = "All" => visibleColumns' = sortedColumns'
      ]_vars

\* The same round trip for a column that is not yet in the tab's hidden list
\* when it is hidden.
HidingFreshColumnReversible ==
    [][ (/\ last'.op = "handleHideColumn"
         /\ last'.tab # "All"
         /\ \A j \in DOMAIN HiddenList(hiddenColumns, last'.tab) :
                HiddenList(hiddenColumns, last'.tab)[j] # last'.columnId)
        => HiddenList(ShowColumn(hiddenColumns', last'.tab, last'.columnId),
                      last'.tab)
             = HiddenList(hiddenColumns, last'.tab)
      ]_vars

\* No identifier is carried by two records of the sequence.
IdentifiersDistinct(s) == \A i, j \in DOMAIN s : s[i].id = s[j].id => i = j

\* C31: in any reachable state no two records of the customer store share an
\* identifier and no two records of the task store share an identifier.
C31_StoreIdentifiersDistinct ==
    IdentifiersDistinct(customers) /\ IdentifiersDistinct(tasks)

\* The same while no create has been issued: refreshes and change-feed events
\* alone keep the customer store free of duplicates.
CustomersDistinctWithoutCreates ==
    (\A i \in DOMAIN adds : adds[i].kind # "customer") => IdentifiersDistinct(customers)

\* The data map the table holds for the customer the request names.
ServerData(table, id) == RowsEq(table, "id", id)[1].data

\* The step is the successful write of a field edit that carries edit e, the
\* last request in flight, made when two edits were issued and the server
\* already holds the value of edit d and not yet that of e.
SecondEditWritten(d, e) ==
    /\ d.field # e.field
    /\ last'.op = "GatewayWrite"
    /\ last'.ok
    /\ last'.request.kind = "updateCustomerData"
    /\ last'.request.fields.data[e.field] = e.value
    /\ nOps = 2
    /\ ops' = <<>>
    /\ ServerData(dbCustomers, last'.request.id)[d.field] = d.value
    /\ ServerData(dbCustomers, last'.request.id)[e.field] # e.value

\* C32: two field edits of the same customer on different fields are both
\* preserved: when the write of the second one succeeds after the write of the
\* first one did, the server's data map holds both new values, whatever the
\* order in which their reads and writes were served.
C32_BothEditsPreserved ==
    [][\A d, e \in FieldEdits :
          SecondEditWritten(d, e)
              => /\ ServerData(dbCustomers', last'.request.id)[d.field] = d.value
                 /\ ServerData(dbCustomers', last'.request.id)[e.field] = e.value]_vars

\* The same for a second edit whose read was served after the first edit's
\* write: no overlap, nothing lost.
SequentialEditsPreserved ==
    [][\A d, e \in FieldEdits :
          (/\ SecondEditWritten(d, e)
           /\ last'.request.fields.data[d.field] = d.value)
              => /\ ServerData(dbCustomers', last'.request.id)[d.field] = d.value
                 /\ ServerData(dbCustomers', last'.request.id)[e.field] = e.value]_vars

\* The identifiers a deleted customer is known under: the one the user deleted
\* and, for a customer whose create has been answered, the one the gateway gave.
EntityIds(id) ==
    {id} \cup {ReturnedId(i) : i \in {j \in DOMAIN adds : /\ adds[j].kind = "customer"
                                                          /\ adds[j].newId = id
                                                          /\ adds[j].data # NoData}}

\* C33: once the user has deleted a customer, no record of that customer is in
\* the local store again.  Stated for the time the delete request is still in
\* flight: neither a refresh that read the server before the delete nor the
\* answer or event of the customer's own create brings a record back.
C33_DeletedStaysDeleted ==
    \A o \in DOMAIN ops :
        ops[o].kind = "deleteCustomer"
            => \A id \in EntityIds(ops[o].id) : ~Some(customers, id)

\* The same for customers that were not created in this session, in runs
\* without a refresh: change-feed events alone bring no deleted customer back.
DeletedStaysDeletedWithoutRefresh ==
    \A o \in DOMAIN ops :
        (/\ ops[o].kind = "deleteCustomer"
         /\ \A i \in DOMAIN adds :
                /\ ops[o].id # adds[i].newId
                /\ adds[i].data # NoData => ops[o].id # ReturnedId(i))
            => ~Some(customers, ops[o].id)

\* C34: deleting a customer from the sheet takes two confirmations.  The delete
\* handler runs only from the final dialog, for the customer that dialog names;
\* the final dialog opens only by confirming the first dialog, for the same
\* customer; cancelling either dialog closes it and leaves the customer store
\* unchanged.
C34_TwoConfirmations ==
    [][ /\ last'.op = "onDeleteCustomer"
            => /\ confirmationModal = FinalDeleteDialog(last'.id)
               /\ confirmationModal' = NoData
        /\ (customers' # customers /\ last'.op \notin {"DeliverEvent", "handleAddCustomer",
                                                       "AddCustomerSuccess", "AddCustomerFail"})
            => last'.op = "onDeleteCustomer"
        /\ (confirmationModal' # confirmationModal /\ confirmationModal' # NoData
                /\ confirmationModal'.stage = "final")
            => /\ last'.op = "showFinalDeleteConfirmation"
               /\ confirmationModal = DeleteDialog(confirmationModal'.id)
        /\ last'.op = "onCancel"
            => /\ confirmationModal' = NoData
               /\ customers' = customers
               /\ ops' = ops
      ]_vars

\* A customer was deleted through the final dialog: the store no longer holds
\* it, the dialog is closed and its delete request is in flight.
C34_Witness ==
    /\ last.op = "onDeleteCustomer"
    /\ ~Some(customers, last.id)
    /\ confirmationModal = NoData
    /\ \E o \in DOMAIN ops : ops[o].kind = "deleteCustomer" /\ ops[o].id = last.id

\* C35: after any sequence of column additions, deletions and reorderings the
\* order values of the columns in the store are pairwise distinct.  Records
\* that carry the same identifier count as one column here.
C35_ColumnOrdersDistinct ==
    \A i, j \in DOMAIN columns :
        columns[i].id # columns[j].id => columns[i].order # columns[j].order

\* C36: a drop whose dragged column identifier is no longer among the columns
\* leaves every column's order unchanged.
C36_DropOfMissingColumnKeepsOrders ==
    [][(last'.op = "handleDrop" /\ ~Some(columns, last'.dragged))
          => /\ Len(columns') = Len(columns)
             /\ \A k \in DOMAIN columns : columns'[k].order = columns[k].order]_vars

\* The same for a drop on the last header: the entry splice(-1, 1) takes out
\* goes back to the end.
DropOfMissingColumnAtEnd ==
    [][(/\ last'.op = "handleDrop"
        /\ ~Some(columns, last'.dragged)
        /\ last'.dropIndex = Len(columns) - 1
        /\ \A k \in DOMAIN columns : columns[k].order = FindIndex(sortedColumns, columns[k].id))
          => \A k \in DOMAIN columns : columns'[k].order = columns[k].order]_vars

\* The edited value equals the stored one: as numbers after removing thousands
\* separators for a currency column, as strings for every other column.
SameValue(type, newValue, oldValue) ==
    IF type = "currency"
    THEN NewNumber(newValue) = NewNumber(oldValue)
    ELSE String(newValue) = String(oldValue)

Added(prev, next) ==
    next[CHOOSE k \in DOMAIN next : Remove(next, k) = prev]

\* C38: the offline variant and the backend-synchronized variant make the same
\* local store transitions.  Every step of a backend-synchronized handler
\* leaves the customer and task stores as the offline handler of the same name
\* leaves them when it is given the same stores and the same arguments, the
\* generated identifier of a create renamed to the one the backend variant
\* generated.
C38_VariantsAgree ==
    [][ /\ last'.op = "handleAddCustomer"
            => /\ customers' = AddCustomerOffline(customers, Added(customers, customers'))
               /\ tasks' = tasks
        /\ last'.op = "handleAddTask"
            => /\ tasks' = AddTaskOffline(tasks, Added(tasks, tasks'))
               /\ customers' = customers
        /\ last'.op = "handleDeleteCustomer"
            => /\ customers' = WithoutId(customers, last'.id)
               /\ tasks' = WithoutTasksOf(tasks, last'.id)
        /\ last'.op = "handleDeleteTask"
            => /\ tasks' = WithoutId(tasks, last'.id)
               /\ customers' = customers
        /\ last'.op = "handleUpdateTask"
            => /\ tasks' = UpdateTaskFields(tasks, last'.id, [title |-> "revised"])
               /\ customers' = customers
        /\ last'.op = "handleUpdateCustomerData"
            => /\ customers' = UpdateCustomerDataField(customers, last'.id, "memo", "visit")
               /\ tasks' = tasks
        /\ last'.op = "handleUpdateCustomer"
            => /\ \E updatedFields \in CustomerEdits :
                     /\ customers' = UpdateCustomerFields(customers, last'.id, updatedFields)
                     /\ customers' = UpdateCustomerOffline(customers, last'.id, updatedFields)
               /\ tasks' = tasks
      ]_vars

\* The handlers on which the two variants do agree: task creates, task
\* deletes, task updates and single-field edits of a customer.
VariantsAgreeOnTasksAndFields ==
    [][ /\ last'.op = "handleAddTask"
            => /\ tasks' = AddTaskOffline(tasks, Added(tasks, tasks'))
               /\ customers' = customers
        /\ last'.op = "handleDeleteTask"
            => /\ tasks' = WithoutId(tasks, last'.id)
               /\ customers' = customers
        /\ last'.op = "handleUpdateTask"
            => /\ tasks' = UpdateTaskFields(tasks, last'.id, [title |-> "revised"])
               /\ customers' = customers
        /\ last'.op = "handleUpdateCustomerData"
            => /\ customers' = UpdateCustomerDataField(customers, last'.id, "memo", "visit")
               /\ tasks' = tasks
      ]_vars

====
